--------------------------- MODULE KeyStreamProofs ---------------------------
(***************************************************************************)
(* Theorems about KeyStream, for every sequence of objects.  What RdbReader*)
(* delivers has these properties as far as it refines KeyStream.           *)
(***************************************************************************)
EXTENDS KeyStream, TLAPS

Records == [obj : Nat, from : Nat, upto : Nat]

-----------------------------------------------------------------------------
(***************************************************************************)
(* The invariant, in parts that are named after what they say of the log.  *)
(***************************************************************************)

\* Each record is a part of an object, an empty one if it is unsupported.
PartsOfObjects ==
  \A k \in DOMAIN log :
    /\ log[k].obj \in 1..Len(source)
    /\ log[k].from <= log[k].upto
    /\ log[k].upto <= source[log[k].obj].size
    /\ ~source[log[k].obj].supported => log[k].upto = 0

\* Each record starts where the one before stopped.
Adjoining ==
  \A k \in 1..(Len(log) - 1) :
    \/ ~EndsObject(k) /\ log[k + 1].obj = log[k].obj
                      /\ log[k + 1].from = log[k].upto
    \/ EndsObject(k) /\ log[k + 1].obj = log[k].obj + 1
                     /\ log[k + 1].from = 0

\* The last record and the position in the source agree.
LastAgrees ==
  IF log = <<>> THEN done = 0 /\ part = 0
  ELSE IF part > 0
  THEN /\ log[Len(log)].obj = done + 1
       /\ log[Len(log)].upto = part
       /\ source[done + 1].supported
  ELSE EndsObject(Len(log)) /\ log[Len(log)].obj = done

FirstStarts == log # <<>> => log[1].obj = 1 /\ log[1].from = 0

\* The objects dealt with are delivered or passed over.
DoneDelivered ==
  \A o \in 1..done : \E k \in DOMAIN log : log[k].obj = o /\ EndsObject(k)

EndedAtEnd == status = "ended" => done = Len(source)

LogInv ==
  /\ PartsOfObjects
  /\ Adjoining
  /\ LastAgrees
  /\ FirstStarts
  /\ DoneDelivered
  /\ EndedAtEnd

StreamInv == TypeOK /\ LogInv

-----------------------------------------------------------------------------
\* The stream starts in the invariant.
LEMMA InitInv == Init => StreamInv
  BY DEF Init, Start, StreamInv, TypeOK, LogInv, PartsOfObjects, Adjoining,
         LastAgrees, FirstStarts, DoneDelivered, EndedAtEnd

\* A step that delivers nothing and stays at its object keeps the log's part.
LEMMA QuietInv ==
  ASSUME StreamInv,
         UNCHANGED <<source, done, part, log>>,
         status' \in {"ended", "broken"},
         status' = "ended" => done = Len(source)
  PROVE  StreamInv'
<1> USE DEF StreamInv, LogInv
<1>1. TypeOK'
  BY DEF TypeOK, Current
<1>2. PartsOfObjects' /\ FirstStarts' /\ EndedAtEnd'
  BY DEF PartsOfObjects, FirstStarts, EndedAtEnd
<1>3. Adjoining'
  BY DEF Adjoining, EndsObject
<1>4. LastAgrees'
  BY DEF LastAgrees, EndsObject
<1>5. DoneDelivered'
  BY DEF DoneDelivered, EndsObject
<1> QED
  BY <1>1, <1>2, <1>3, <1>4, <1>5

\* A step that changes nothing keeps the invariant.
LEMMA QuietStepInv ==
  ASSUME StreamInv, UNCHANGED <<source, done, part, status, log>>
  PROVE  StreamInv'
<1> USE DEF StreamInv, LogInv
<1>1. TypeOK'
  BY DEF TypeOK, Current
<1>2. PartsOfObjects' /\ FirstStarts' /\ EndedAtEnd'
  BY DEF PartsOfObjects, FirstStarts, EndedAtEnd
<1>3. Adjoining'
  BY DEF Adjoining, EndsObject
<1>4. LastAgrees' /\ DoneDelivered'
  BY DEF LastAgrees, DoneDelivered, EndsObject
<1> QED
  BY <1>1, <1>2, <1>3, <1>4

-----------------------------------------------------------------------------
\* What appending a record leaves of the log.
LEMMA Appended ==
  ASSUME NEW d \in Records, log \in Seq(Records), log' = Append(log, d)
  PROVE  /\ log' \in Seq(Records)
         /\ Len(log') = Len(log) + 1 /\ Len(log) \in Nat
         /\ log'[Len(log) + 1] = d
         /\ \A k \in 1..Len(log) : log'[k] = log[k]
         /\ DOMAIN log = 1..Len(log) /\ DOMAIN log' = 1..(Len(log) + 1)
  OBVIOUS

\* The object the stream stands at.
LEMMA CurrentType ==
  ASSUME StreamInv, done < Len(source)
  PROVE  /\ done \in Nat /\ part \in Nat /\ done + 1 \in 1..Len(source)
         /\ Current \in Objects /\ Current.size \in Nat
<1>1. source \in Seq(Objects) /\ done \in Nat /\ part \in Nat
  BY DEF StreamInv, TypeOK
<1>2. done + 1 \in 1..Len(source)
  BY <1>1
<1>3. Current \in Objects
  BY <1>1, <1>2 DEF Current
<1> QED
  BY <1>1, <1>2, <1>3 DEF Objects

(***************************************************************************)
(* What both ways of dealing with the current object have in common: a     *)
(* record that begins where the stream stands, and ends the object or      *)
(* leaves a part of it.                                                    *)
(***************************************************************************)
LEMMA RecordInv ==
  ASSUME StreamInv, status = "open", done < Len(source),
         NEW upto \in Nat, upto >= part, upto <= Current.size,
         ~Current.supported => upto = 0 /\ part = 0,
         log' = Append(log, [obj |-> done + 1, from |-> part, upto |-> upto]),
         UNCHANGED <<source, status>>,
         \/ /\ ~Current.supported \/ upto = Current.size
            /\ done' = done + 1 /\ part' = 0
         \/ /\ Current.supported /\ upto # Current.size /\ upto > 0
            /\ done' = done /\ part' = upto
  PROVE  StreamInv'
<1> DEFINE o == done + 1
           d == [obj |-> o, from |-> part, upto |-> upto]
           last == Len(log)
           Ends(r) == ~source[r.obj].supported \/ r.upto = source[r.obj].size
<1>1. /\ source \in Seq(Objects) /\ done \in Nat /\ part \in Nat
      /\ o \in 1..Len(source) /\ source[o] \in Objects /\ Len(source) \in Nat
      /\ log \in Seq(Records) /\ source' = source /\ status' = status
      /\ Current = source[o] /\ source[o].size \in Nat
      /\ source[o].supported \in BOOLEAN
  <2>1. /\ source \in Seq(Objects) /\ done \in Nat /\ part \in Nat
        /\ log \in Seq(Records) /\ Len(source) \in Nat
    BY DEF StreamInv, TypeOK, Records
  <2>2. o \in 1..Len(source)
    BY <2>1
  <2>3. source[o] \in Objects
    BY <2>1, <2>2
  <2> QED
    BY <2>1, <2>2, <2>3 DEF Current, Objects
<1>2. d \in Records
  BY <1>1 DEF Records
<1>3. /\ log' \in Seq(Records)
      /\ Len(log') = last + 1 /\ last \in Nat
      /\ log'[last + 1] = d
      /\ \A k \in 1..last : log'[k] = log[k] /\ log[k] \in Records
      /\ DOMAIN log = 1..last /\ DOMAIN log' = 1..(last + 1)
      /\ log # <<>> <=> last > 0
  BY <1>1, <1>2, Appended
<1> HIDE DEF last
<1>4. PartsOfObjects'
  <2> SUFFICES ASSUME NEW k \in 1..(last + 1)
               PROVE  /\ log'[k].obj \in 1..Len(source)
                      /\ log'[k].from <= log'[k].upto
                      /\ log'[k].upto <= source[log'[k].obj].size
                      /\ ~source[log'[k].obj].supported => log'[k].upto = 0
    BY <1>1, <1>3 DEF PartsOfObjects
  <2>1. CASE k \in 1..last
    BY <2>1, <1>3 DEF StreamInv, LogInv, PartsOfObjects
  <2>2. CASE k = last + 1
    BY <2>2, <1>1, <1>3
  <2> QED
    BY <2>1, <2>2, <1>3
<1>5. last > 0 => IF part > 0
                  THEN log[last].obj = o /\ log[last].upto = part
                         /\ ~Ends(log[last])
                  ELSE Ends(log[last]) /\ log[last].obj + 1 = o
  <2>1. CASE part > 0 /\ last > 0
    <3>1. log[last].obj = o /\ log[last].upto = part /\ source[o].supported
      BY <2>1, <1>3 DEF StreamInv, LogInv, LastAgrees, last
    <3>2. part < source[o].size
      BY <1>1, <2>1 DEF StreamInv, TypeOK
    <3> QED
      BY <3>1, <3>2, <1>1, <2>1
  <2>2. CASE ~(part > 0) /\ last > 0
    BY <2>2, <1>3 DEF StreamInv, LogInv, LastAgrees, EndsObject, last
  <2> QED
    BY <2>1, <2>2
<1>6. Adjoining'
  <2> SUFFICES ASSUME NEW k \in 1..last
               PROVE  \/ ~Ends(log'[k]) /\ log'[k + 1].obj = log'[k].obj
                                        /\ log'[k + 1].from = log'[k].upto
                      \/ Ends(log'[k]) /\ log'[k + 1].obj = log'[k].obj + 1
                                       /\ log'[k + 1].from = 0
    <3>1. Len(log') - 1 = last
      BY <1>3
    <3> QED
      <4>1. \A k \in DOMAIN log' : EndsObject(k)' <=> Ends(log'[k])
        BY <1>1 DEF EndsObject
      <4>2. \A k \in 1..last : k \in DOMAIN log'
        BY <1>3
      <4> HIDE DEF Ends
      <4>3. QED
        BY <3>1, <4>1, <4>2, ZenonT(30) DEF Adjoining
  <2>1. CASE k + 1 \in 1..last
    <3>1. k \in 1..(last - 1) /\ log'[k] = log[k] /\ log'[k + 1] = log[k + 1]
      BY <2>1, <1>3
    <3> QED
      BY <3>1 DEF StreamInv, LogInv, Adjoining, EndsObject, last
  <2>2. CASE k = last
    <3>1. log'[k] = log[last] /\ log'[k + 1] = d /\ last > 0
      BY <2>2, <1>3
    <3>2. d.obj = o /\ d.from = part
      OBVIOUS
    <3> HIDE DEF d, Ends
    <3>3. CASE part > 0
      BY <3>1, <3>2, <3>3, <1>5
    <3>4. CASE ~(part > 0)
      <4>1. part = 0
        BY <3>4, <1>1
      <4> QED
        BY <3>1, <3>2, <3>4, <4>1, <1>5
    <3> QED
      BY <3>3, <3>4
  <2> QED
    BY <2>1, <2>2, <1>3
<1>7. FirstStarts'
  <2>1. CASE last = 0
    BY <2>1, <1>1, <1>3 DEF FirstStarts, StreamInv, LogInv, LastAgrees
  <2>2. CASE last > 0
    BY <2>2, <1>1, <1>3 DEF FirstStarts, StreamInv, LogInv
  <2> QED
    BY <2>1, <2>2, <1>3
<1>8. EndedAtEnd'
  BY <1>1 DEF EndedAtEnd
<1>9. \A q \in 1..done : \E k \in DOMAIN log' : log'[k].obj = q /\ Ends(log'[k])
  <2> SUFFICES ASSUME NEW q \in 1..done
               PROVE  \E k \in DOMAIN log' : log'[k].obj = q /\ Ends(log'[k])
    OBVIOUS
  <2>1. PICK k \in 1..last : log[k].obj = q /\ Ends(log[k])
    BY <1>3 DEF StreamInv, LogInv, DoneDelivered, EndsObject
  <2> QED
    BY <2>1, <1>3, SMTT(30)
<1>10. CASE /\ ~Current.supported \/ upto = Current.size
            /\ done' = done + 1 /\ part' = 0
  <2>1. TypeOK'
    BY <1>1, <1>3, <1>10 DEF StreamInv, TypeOK, Records
  <2>2. Ends(d)
    BY <1>1, <1>10
  <2>3. LastAgrees'
    BY <1>1, <1>3, <1>10, <2>2, SMTT(30) DEF LastAgrees, EndsObject
  <2>4. DoneDelivered'
    <3>1. ASSUME NEW q \in 1..o
          PROVE  \E k \in DOMAIN log' : log'[k].obj = q /\ Ends(log'[k])
      <4>1. CASE q = o
        BY <4>1, <1>3, <2>2
      <4>2. CASE q # o
        <5>1. q \in 1..done
          BY <4>2, <1>1
        <5> QED
          BY <5>1, <1>9
      <4> QED
        BY <4>1, <4>2
    <3>2. done' = o /\ source' = source
      BY <1>1, <1>10
    <3>3. \A q \in 1..done' : \E k \in DOMAIN log' :
            log'[k].obj = q /\ Ends(log'[k])
      BY <3>1, <3>2
    <3> HIDE DEF o
    <3> QED
      BY <3>2, <3>3 DEF DoneDelivered, EndsObject
  <2> QED
    BY <1>4, <1>6, <1>7, <1>8, <2>1, <2>3, <2>4 DEF StreamInv, LogInv
<1>11. CASE /\ Current.supported /\ upto # Current.size /\ upto > 0
            /\ done' = done /\ part' = upto
  <2>1. TypeOK'
    <3>1. part' < source[o].size /\ Current' = source[o]
      BY <1>1, <1>11 DEF Current
    <3> QED
      BY <1>1, <1>3, <1>11, <3>1 DEF StreamInv, TypeOK, Records
  <2>2. LastAgrees'
    <3>1. log' # <<>> /\ log'[Len(log')] = d /\ source[o].supported
      BY <1>1, <1>3, <1>11
    <3> QED
      BY <1>1, <1>11, <3>1 DEF LastAgrees
  <2>3. DoneDelivered'
    <3>1. done' = done /\ source' = source
      BY <1>1, <1>11
    <3> QED
      BY <1>9, <3>1 DEF DoneDelivered, EndsObject
  <2> QED
    BY <1>4, <1>6, <1>7, <1>8, <2>1, <2>2, <2>3 DEF StreamInv, LogInv
<1> QED
  BY <1>10, <1>11

\* A delivery keeps the invariant.
LEMMA DeliverInv ==
  ASSUME StreamInv, status = "open", done < Len(source), Current.supported,
         NEW n \in 0..(Current.size - part), Deliver(n)
  PROVE  StreamInv'
<1>1. /\ done \in Nat /\ part \in Nat /\ Current \in Objects
      /\ Current.size \in Nat
  BY CurrentType
<1>2. /\ part + n \in Nat /\ part + n >= part /\ part + n <= Current.size
      /\ part + n # Current.size => part + n > 0
  BY <1>1 DEF Deliver
<1> QED
  BY <1>1, <1>2, RecordInv DEF Deliver

\* So does passing over an unsupported object: no part of it was delivered.
LEMMA PassOverInv ==
  ASSUME StreamInv, PassOver
  PROVE  StreamInv'
<1>1. /\ done \in Nat /\ part \in Nat /\ Current \in Objects
      /\ Current.size \in Nat
  BY CurrentType DEF PassOver
<1>2. part = 0
  BY <1>1 DEF PassOver, Current, StreamInv, LogInv, LastAgrees
<1>3. UNCHANGED part
  BY DEF PassOver
<1> QED
  BY <1>1, <1>2, <1>3, RecordInv DEF PassOver

-----------------------------------------------------------------------------
\* Every step keeps the invariant.
LEMMA StepInv == StreamInv /\ [Next]_vars => StreamInv'
<1> SUFFICES ASSUME StreamInv, [Next]_vars
             PROVE  StreamInv'
  OBVIOUS
<1>1. CASE DeliverSome
  BY <1>1, DeliverInv DEF DeliverSome
<1>2. CASE PassOver
  BY <1>2, PassOverInv
<1>3. CASE End
  BY <1>3, QuietInv DEF End
<1>4. CASE Break
  BY <1>4, QuietInv DEF Break
<1>5. CASE UNCHANGED vars
  BY <1>5, QuietStepInv DEF vars
<1> QED
  BY <1>1, <1>2, <1>3, <1>4, <1>5 DEF Next

THEOREM StreamInvariant == Spec => []StreamInv
  BY InitInv, StepInv, PTL DEF Spec

(***************************************************************************)
(* The types of KeyStream, and that a part of an object is pending only    *)
(* while the object is neither finished nor beyond the end (next, the      *)
(* iterator of reader.rs).                                                 *)
(***************************************************************************)
THEOREM TypeCorrect == Spec => []TypeOK
<1>1. StreamInv => TypeOK
  BY DEF StreamInv
<1> QED
  BY <1>1, StreamInvariant, PTL

(***************************************************************************)
(* The results of the iterator of reader.rs partition the objects, in      *)
(* order.                                                                  *)
(***************************************************************************)
THEOREM PartsPartition == Spec => []LogPartition
<1>1. StreamInv => LogPartition
  BY DEF StreamInv, LogInv, LogPartition, PartsOfObjects, Adjoining, FirstStarts
<1> QED
  BY <1>1, StreamInvariant, PTL

(***************************************************************************)
(* When the iterator of reader.rs ends without an error, every object was  *)
(* delivered to its end or, if unsupported, passed over.                   *)
(***************************************************************************)
THEOREM EndIsComplete == Spec => []EndedIsComplete
<1>1. StreamInv => EndedIsComplete
  BY DEF StreamInv, LogInv, DoneDelivered, EndedAtEnd, EndedIsComplete
<1> QED
  BY <1>1, StreamInvariant, PTL
=============================================================================
