--------------------------- MODULE WriterPipeline ---------------------------
(***************************************************************************)
(* run_writer_pipeline and close_all of crates/rdb-to-arrow/src/writer.rs, *)
(* the driver that every output format shares: it pulls results from the   *)
(* batcher, creates and opens a writer when a type appears, writes each    *)
(* batch to the writer of its type, stops at the first error, and then     *)
(* closes every writer that it opened.  What the four callbacks do to a    *)
(* file is the format's; here each of them succeeds or fails.              *)
(***************************************************************************)
EXTENDS Integers, Sequences

CONSTANTS
  TagOrder,  \* the types in the order of TypeTag's variants
  Inputs,    \* what the batcher may yield: sequences of tags and Failure
  Failure,   \* a result that is an error
  Faults     \* the callbacks that may fail

Tags == {TagOrder[i] : i \in DOMAIN TagOrder}

ASSUME PipelineAssumption ==
  /\ TagOrder \in Seq(Tags)
  /\ \A i, j \in DOMAIN TagOrder : TagOrder[i] = TagOrder[j] => i = j
  /\ Failure \notin Tags
  /\ Inputs \subseteq Seq(Tags \cup {Failure})
  /\ Faults \subseteq {"create", "open", "write", "close"}

VARIABLES
  input,            \* what the batcher yields; never changes
  at,               \* how many results were pulled; input[at] is at hand
  pc,               \* the call that comes next
  writers,          \* the keys of the BTreeMap of writers
  populate_result,  \* populate_result
  first_err,        \* first_err of close_all
  file,             \* the file of each type, as the callbacks leave it,
  content,          \* and the positions in input of the batches written to it
  result,           \* what run_writer_pipeline returned: <<result>>
  errors            \* history: every error, in order

vars == <<input, at, pc, writers, populate_result, first_err, file, content,
          result, errors>>

Ok == [op |-> "ok"]
Upstream == [op |-> "upstream"]
Failed(op, tag) == [op |-> op, tag |-> tag]

Errors == {Upstream} \cup {Failed(op, tag) : op \in Faults, tag \in Tags}

Init ==
  /\ input \in Inputs
  /\ at = 0
  /\ pc = "pull"
  /\ writers = {}
  /\ populate_result = Ok
  /\ first_err = Ok
  /\ file = [tag \in Tags |-> "absent"]
  /\ content = [tag \in Tags |-> <<>>]
  /\ result = <<>>
  /\ errors = <<>>

\* The populate loop ends with an error.
Stop(e) ==
  /\ populate_result' = e
  /\ errors' = Append(errors, e)
  /\ pc' = "close"

\* Mutants of PullEnd: the end of the iterator is counted as a result; an
\* iterator that has ended is polled.
PullEnd_Counted ==
  /\ pc = "pull" /\ at = Len(input)
  /\ pc' = "close"
  /\ at' = at + 1
  /\ UNCHANGED <<input, writers, populate_result, first_err, file, content,
                 result, errors>>

PullEnd_Polls == pc = "pull" /\ at = Len(input) /\ UNCHANGED vars

PullEnd ==
  /\ pc = "pull" /\ at = Len(input)
  /\ pc' = "close"
  /\ UNCHANGED <<input, at, writers, populate_result, first_err, file, content,
                 result, errors>>

\* Mutant of PullError: an upstream error is skipped.
PullError_Skipped ==
  /\ pc = "pull" /\ at < Len(input) /\ input[at + 1] = Failure
  /\ at' = at + 1
  /\ errors' = Append(errors, Upstream)
  /\ UNCHANGED <<input, pc, writers, populate_result, first_err, file, content,
                 result>>

PullError ==
  /\ pc = "pull" /\ at < Len(input) /\ input[at + 1] = Failure
  /\ at' = at + 1
  /\ Stop(Upstream)
  /\ UNCHANGED <<input, writers, first_err, file, content, result>>

\* Mutant of PullBatch: a new writer for every batch.
PullBatch_Reopens ==
  /\ pc = "pull" /\ at < Len(input) /\ input[at + 1] # Failure
  /\ at' = at + 1
  /\ pc' = "create"
  /\ UNCHANGED <<input, writers, populate_result, first_err, file, content,
                 result, errors>>

PullBatch ==
  /\ pc = "pull" /\ at < Len(input) /\ input[at + 1] # Failure
  /\ at' = at + 1
  /\ pc' = IF input[at + 1] \in writers THEN "write" ELSE "create"
  /\ UNCHANGED <<input, writers, populate_result, first_err, file, content,
                 result, errors>>

-----------------------------------------------------------------------------
(***************************************************************************)
(* The callbacks.  File::create truncates a file that is there.            *)
(***************************************************************************)
tag == input[at]

CallFails(op) ==
  /\ op \in Faults
  /\ Stop(Failed(op, tag))
  /\ UNCHANGED <<input, at, writers, first_err, file, content, result>>

writer_factory ==
  /\ pc = "create"
  /\ \/ /\ pc' = "open"
        /\ file' = [file EXCEPT ![tag] = "created"]
        /\ content' = [content EXCEPT ![tag] = <<>>]
        /\ UNCHANGED <<input, at, writers, populate_result, first_err, result,
                       errors>>
     \/ CallFails("create")

open ==
  /\ pc = "open"
  /\ \/ /\ pc' = "write"
        /\ file' = [file EXCEPT ![tag] = "open"]
        /\ writers' = writers \cup {tag}
        /\ UNCHANGED <<input, at, populate_result, first_err, content, result,
                       errors>>
     \/ CallFails("open")

write ==
  /\ pc = "write"
  /\ \/ /\ pc' = "pull"
        /\ content' = [content EXCEPT ![tag] = Append(@, at)]
        /\ UNCHANGED <<input, at, writers, populate_result, first_err, file,
                       result, errors>>
     \/ CallFails("write")

-----------------------------------------------------------------------------
(***************************************************************************)
(* close_all, in the order of the map, and the result.                     *)
(***************************************************************************)
First(t) ==
  /\ t \in writers
  /\ \A i, j \in DOMAIN TagOrder :
       TagOrder[i] \in writers /\ TagOrder[j] = t => j <= i

CloseWith(s) ==
  \E t \in Tags :
    /\ First(t)
    /\ writers' = writers \ {t}
    /\ file' = [file EXCEPT ![t] = s]
    /\ IF s = "closed" THEN UNCHANGED <<first_err, errors>>
       ELSE /\ first_err' = IF first_err = Ok THEN Failed("close", t)
                            ELSE first_err
            /\ errors' = Append(errors, Failed("close", t))

\* Mutant of CloseFails: the writers behind the one that fails are dropped.
CloseFails_Returns ==
  /\ pc = "close" /\ writers # {} /\ "close" \in Faults
  /\ \E t \in Tags :
       /\ First(t)
       /\ first_err' = Failed("close", t)
       /\ errors' = Append(errors, Failed("close", t))
       /\ file' = [file EXCEPT ![t] = "broken"]
  /\ writers' = {}
  /\ UNCHANGED <<input, at, pc, populate_result, content, result>>

CloseFails ==
  /\ pc = "close" /\ writers # {} /\ "close" \in Faults
  /\ CloseWith("broken")
  /\ UNCHANGED <<input, at, pc, populate_result, content, result>>

Close ==
  /\ pc = "close" /\ writers # {}
  /\ CloseWith("closed")
  /\ UNCHANGED <<input, at, pc, populate_result, content, result>>

\* Mutant of Outcome: a close error hides the error that came before it.
Outcome_CloseWins == IF first_err # Ok THEN first_err ELSE populate_result

\* populate_result.and(close_result)
Outcome == IF populate_result # Ok THEN populate_result ELSE first_err

Return ==
  /\ pc = "close" /\ writers = {}
  /\ pc' = "done"
  /\ result' = <<Outcome>>
  /\ UNCHANGED <<input, at, writers, populate_result, first_err, file, content,
                 errors>>

Returned == pc = "done" /\ UNCHANGED vars

Step == \/ PullBatch \/ PullError \/ PullEnd
        \/ writer_factory \/ open \/ write
        \/ Close \/ CloseFails \/ Return

Next == Step \/ Returned

Spec == Init /\ [][Next]_vars

(***************************************************************************)
(* The driver is one call that runs by itself: while it can take a step it *)
(* eventually does.                                                        *)
(***************************************************************************)
FairSpec == Spec /\ WF_vars(Step)
-----------------------------------------------------------------------------
(***************************************************************************)
(* Properties.                                                             *)
(***************************************************************************)
\* The type of every variable (the locals of the two functions).
TypeOK ==
  /\ input \in Seq(Tags \cup {Failure})
  /\ at \in 0..Len(input)
  /\ pc \in {"pull", "create", "open", "write", "close", "done"}
  /\ pc \in {"create", "open", "write"} => at > 0 /\ tag \in Tags
  /\ writers \subseteq Tags
  /\ populate_result \in Errors \cup {Ok}
  /\ first_err \in Errors \cup {Ok}
  /\ file \in [Tags -> {"absent", "created", "open", "closed", "broken"}]
  /\ content \in [Tags -> Seq(Nat)]
  /\ result \in Seq(Errors \cup {Ok})
  /\ errors \in Seq(Errors)

(***************************************************************************)
(* "upstream/write errors take precedence over close errors", and no error *)
(* is lost: the result is the first error that occurred, if one did.       *)
(***************************************************************************)
FirstErrorReported ==
  pc = "done" => result = IF errors = <<>> THEN <<Ok>> ELSE <<errors[1]>>

(***************************************************************************)
(* "every writer is finalized": when the driver returns no file has a      *)
(* writer that was not closed, whatever failed; a file without one is one  *)
(* whose open failed, which is then the result.                            *)
(***************************************************************************)
EveryWriterFinalized ==
  pc = "done" => \A t \in Tags : /\ file[t] # "open"
                                 /\ file[t] = "created"
                                      => result = <<Failed("open", t)>>

(***************************************************************************)
(* An export that returns Ok has written every batch, each to the file of  *)
(* its type, in the order the batcher yielded them and once.               *)
(***************************************************************************)
HoldsAll(t) ==
  /\ \A i, j \in DOMAIN content[t] : i < j => content[t][i] < content[t][j]
  /\ {content[t][i] : i \in DOMAIN content[t]}
       = {i \in DOMAIN input : input[i] = t}

OkMeansComplete ==
  result = <<Ok>> =>
    \A t \in Tags : /\ HoldsAll(t)
                    /\ file[t] = IF content[t] = <<>> THEN "absent" ELSE "closed"

\* A batch is pulled, and a callback other than close called, only while
\* nothing has failed: the first error stops the export.
NothingAfterError ==
  [][errors # <<>> => UNCHANGED <<at, content>> /\ writers' \subseteq writers]_vars

\* "close order is deterministic (sorted by TypeTag variant order)".
CloseInOrder ==
  [][\A i, j \in DOMAIN TagOrder :
       /\ TagOrder[i] \in writers /\ TagOrder[i] \notin writers'
       /\ TagOrder[j] \in writers'
       => i < j]_vars

\* The driver returns.
Terminates == <>(pc = "done")

(***************************************************************************)
(* Whatever fails and when, the files are what OutputFiles promises.       *)
(***************************************************************************)
Output == INSTANCE OutputFiles WITH state <- file

OutputSpec == Output!Spec
==============================================================================
