----------------------------- MODULE OutputFiles -----------------------------
(***************************************************************************)
(* What an export promises of its output files                             *)
(* (crates/rdb-to-arrow/src/writer.rs), whatever the format and whichever  *)
(* operations fail: one file per type, created once, whose content only    *)
(* grows and never changes after it was finalized; and a result that is    *)
(* announced when no file is left open.                                    *)
(***************************************************************************)
EXTENDS Naturals, Sequences

CONSTANTS Tags,   \* the types
          Ok,     \* the result of an export without an error,
          Errors  \* and those of the others

VARIABLES state,    \* of each file
          content,  \* the batches written to it, in order
          result    \* of the export, once it has one: <<result>>

vars == <<state, content, result>>

Init ==
  /\ state = [tag \in Tags |-> "absent"]
  /\ content = [tag \in Tags |-> <<>>]
  /\ result = <<>>

\* The file is created (and truncated, if it was there before the export).
Create(tag) ==
  /\ result = <<>> /\ state[tag] = "absent"
  /\ state' = [state EXCEPT ![tag] = "created"]
  /\ UNCHANGED <<content, result>>

\* The writer of the format is opened on it.
Open(tag) ==
  /\ result = <<>> /\ state[tag] = "created"
  /\ state' = [state EXCEPT ![tag] = "open"]
  /\ UNCHANGED <<content, result>>

\* A batch is written to it, behind those that are there.
Write(tag) ==
  /\ result = <<>> /\ state[tag] = "open"
  /\ Len(content'[tag]) = Len(content[tag]) + 1
  /\ \A i \in DOMAIN content[tag] : content'[tag][i] = content[tag][i]
  /\ content' = [content EXCEPT ![tag] = content'[tag]]
  /\ UNCHANGED <<state, result>>

\* The writer is finalized, or fails to be.
Close(tag) ==
  /\ result = <<>> /\ state[tag] = "open"
  /\ \E s \in {"closed", "broken"} : state' = [state EXCEPT ![tag] = s]
  /\ UNCHANGED <<content, result>>

\* The result; Ok is announced only of files that are all finalized.
Finish ==
  /\ result = <<>>
  /\ \A tag \in Tags : state[tag] # "open"
  /\ \E r \in Errors \cup {Ok} :
       /\ r = Ok => \A tag \in Tags : state[tag] \in {"absent", "closed"}
       /\ result' = <<r>>
  /\ UNCHANGED <<state, content>>

Next ==
  \/ \E tag \in Tags : Create(tag) \/ Open(tag) \/ Write(tag) \/ Close(tag)
  \/ Finish

Spec == Init /\ [][Next]_vars
==============================================================================
