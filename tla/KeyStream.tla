------------------------------ MODULE KeyStream ------------------------------
(***************************************************************************)
(* What the reader promises its consumer, without files, opcodes or        *)
(* checksums: the objects of the source are delivered in order, each one   *)
(* in parts that follow each other without gap or overlap; an object of an *)
(* unsupported type is passed over; the stream ends only when everything   *)
(* was delivered, and may break off with an error at any point before.     *)
(***************************************************************************)
EXTENDS Integers, Sequences

\* An object has a size, and its type may be one the consumer cannot get.
Objects == [size : Nat, supported : BOOLEAN]

VARIABLES
  source,     \* the objects; never changes
  done,       \* how many of them are dealt with
  part,       \* how many elements of the next one are delivered
  status,     \* "open", "ended" or "broken"
  log         \* what came out: elements from+1 .. upto of object obj, or that
              \* it was passed over

vars == <<source, done, part, status, log>>

Start ==
  /\ done = 0
  /\ part = 0
  /\ status = "open"
  /\ log = <<>>

Init == source \in Seq(Objects) /\ Start

Current == source[done + 1]

\* The next n elements of the current object; all of them if it is empty.
Deliver(n) ==
  /\ n > 0 \/ Current.size = 0
  /\ log' = Append(log, [obj |-> done + 1, from |-> part, upto |-> part + n])
  /\ IF part + n = Current.size
     THEN done' = done + 1 /\ part' = 0
     ELSE done' = done /\ part' = part + n
  /\ UNCHANGED <<source, status>>

DeliverSome ==
  /\ status = "open" /\ done < Len(source) /\ Current.supported
  /\ \E n \in 0..(Current.size - part) : Deliver(n)

PassOver ==
  /\ status = "open" /\ done < Len(source) /\ ~Current.supported
  /\ log' = Append(log, [obj |-> done + 1, from |-> 0, upto |-> 0])
  /\ done' = done + 1
  /\ UNCHANGED <<source, part, status>>

End ==
  /\ status = "open" /\ done = Len(source)
  /\ status' = "ended"
  /\ UNCHANGED <<source, done, part, log>>

Break ==
  /\ status = "open"
  /\ status' = "broken"
  /\ UNCHANGED <<source, done, part, log>>

Next ==
  \/ DeliverSome
  \/ PassOver
  \/ End
  \/ Break

Spec == Init /\ [][Next]_vars
-----------------------------------------------------------------------------
\* The type of every variable, and that only a part of an object is pending.
TypeOK ==
  /\ source \in Seq(Objects)
  /\ done \in 0..Len(source)
  /\ part \in Nat /\ (part > 0 => done < Len(source) /\ part < Current.size)
  /\ status \in {"open", "ended", "broken"}
  /\ log \in Seq([obj : Nat, from : Nat, upto : Nat])

\* Record k ends its object.
EndsObject(k) ==
  ~source[log[k].obj].supported \/ log[k].upto = source[log[k].obj].size

(***************************************************************************)
(* The records partition the objects: each starts where the one before     *)
(* stopped, the first record of an object starts at 0, and the next object *)
(* is begun only when the one before was delivered to its end or passed    *)
(* over.  Of an unsupported object nothing is delivered.                   *)
(***************************************************************************)
LogPartition ==
  /\ \A k \in DOMAIN log :
       /\ log[k].obj \in 1..Len(source)
       /\ log[k].from <= log[k].upto
       /\ log[k].upto <= source[log[k].obj].size
       /\ ~source[log[k].obj].supported => log[k].upto = 0
  /\ \A k \in 1..(Len(log) - 1) :
       \/ ~EndsObject(k) /\ log[k + 1].obj = log[k].obj
                         /\ log[k + 1].from = log[k].upto
       \/ EndsObject(k) /\ log[k + 1].obj = log[k].obj + 1
                        /\ log[k + 1].from = 0
  /\ log # <<>> => log[1].obj = 1 /\ log[1].from = 0

\* Once the stream has ended every object was delivered to its end or passed
\* over.
EndedIsComplete ==
  status = "ended" =>
    \A o \in 1..Len(source) : \E k \in DOMAIN log : log[k].obj = o /\ EndsObject(k)
==============================================================================
