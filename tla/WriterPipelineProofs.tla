------------------------- MODULE WriterPipelineProofs -------------------------
(***************************************************************************)
(* Proofs about WriterPipeline, for every set of types, every sequence of  *)
(* batches and errors, and every choice of the callbacks that may fail.    *)
(***************************************************************************)
EXTENDS WriterPipeline, TLAPS

\* Inside an iteration of the populate loop.
AtHand == {"create", "open", "write"}

(***************************************************************************)
(* Errors are never Ok, and a batch that is at hand has a type.            *)
(***************************************************************************)
LEMMA ErrorIsNotOk ==
  ASSUME NEW e \in Errors
  PROVE  e # Ok
<1>1. e.op # "ok"
  BY PipelineAssumption DEF Errors, Upstream, Failed
<1>2. QED
  BY <1>1 DEF Ok

LEMMA FailedIsError ==
  ASSUME NEW op \in Faults, NEW t \in Tags
  PROVE  Failed(op, t) \in Errors
BY DEF Errors

\* A callback is called with the type of the batch at hand.
LEMMA BatchAtHand ==
  ASSUME TypeOK, pc \in AtHand
  PROVE  at \in 1..Len(input) /\ tag \in Tags
BY DEF TypeOK, AtHand, tag

-----------------------------------------------------------------------------
(***************************************************************************)
(* Type correctness.                                                       *)
(***************************************************************************)
LEMMA InitTyped == Init => TypeOK
<1>1. ASSUME Init PROVE TypeOK
  <2>1. input \in Seq(Tags \cup {Failure})
    BY <1>1, PipelineAssumption DEF Init
  <2>2. content \in [Tags -> Seq(Nat)]
    BY <1>1 DEF Init
  <2>3. result \in Seq(Errors \cup {Ok}) /\ errors \in Seq(Errors)
    BY <1>1 DEF Init
  <2>4. QED
    BY <1>1, <2>1, <2>2, <2>3 DEF Init, TypeOK
<1>2. QED
  BY <1>1

\* A failing callback.
LEMMA CallFailsTyped ==
  ASSUME TypeOK, pc \in AtHand, NEW op \in Faults, CallFails(op)
  PROVE  TypeOK'
<1>1. Failed(op, tag) \in Errors
  BY BatchAtHand, FailedIsError
<1>2. errors' \in Seq(Errors)
  BY <1>1 DEF TypeOK, CallFails, Stop
<1>3. populate_result' \in Errors \cup {Ok} /\ pc' = "close"
  BY <1>1 DEF CallFails, Stop
<1>4. QED
  BY <1>2, <1>3 DEF TypeOK, CallFails

\* The step of close_all.
LEMMA CloseWithTyped ==
  ASSUME TypeOK, pc = "close", NEW s \in {"closed", "broken"}, CloseWith(s),
         s = "broken" => "close" \in Faults,
         UNCHANGED <<input, at, pc, populate_result, content, result>>
  PROVE  TypeOK'
<1>1. PICK t \in Tags :
        /\ writers' = writers \ {t}
        /\ file' = [file EXCEPT ![t] = s]
        /\ IF s = "closed" THEN UNCHANGED <<first_err, errors>>
           ELSE /\ first_err' = IF first_err = Ok THEN Failed("close", t)
                                ELSE first_err
                /\ errors' = Append(errors, Failed("close", t))
  BY DEF CloseWith
<1>2. s = "broken" => Failed("close", t) \in Errors
  BY FailedIsError
<1>3. first_err' \in Errors \cup {Ok}
  BY <1>1, <1>2 DEF TypeOK
<1>4. errors' \in Seq(Errors)
  <2>1. CASE s = "closed"
    BY <1>1, <2>1 DEF TypeOK
  <2>2. CASE s = "broken"
    <3>1. errors' = Append(errors, Failed("close", t))
      BY <1>1, <2>2
    <3>2. Failed("close", t) \in Errors /\ errors \in Seq(Errors)
      BY <1>2, <2>2 DEF TypeOK
    <3>3. QED
      BY <3>1, <3>2
  <2>3. QED
    BY <2>1, <2>2
<1>5. file' \in [Tags -> {"absent", "created", "open", "closed", "broken"}]
  BY <1>1 DEF TypeOK
<1>6. writers' \subseteq Tags
  BY <1>1 DEF TypeOK
<1>7. QED
  BY <1>3, <1>4, <1>5, <1>6 DEF TypeOK

LEMMA NextTyped == TypeOK /\ [Next]_vars => TypeOK'
<1> SUFFICES ASSUME TypeOK, [Next]_vars PROVE TypeOK'
  OBVIOUS
<1>1. CASE PullBatch
  <2>1. input[at + 1] \in Tags
    BY <1>1 DEF PullBatch, TypeOK
  <2>2. at' \in 0..Len(input') /\ at' > 0
    BY <1>1 DEF PullBatch, TypeOK
  <2>3. tag' \in Tags
    BY <1>1, <2>1 DEF PullBatch, tag
  <2>4. pc' \in {"create", "write"}
    BY <1>1 DEF PullBatch
  <2>5. QED
    BY <1>1, <2>2, <2>3, <2>4 DEF PullBatch, TypeOK
<1>2. CASE PullError
  <2>1. Upstream \in Errors
    BY DEF Errors
  <2>2. errors' \in Seq(Errors) /\ populate_result' \in Errors /\ pc' = "close"
    BY <1>2, <2>1 DEF PullError, Stop, TypeOK
  <2>3. at' \in 0..Len(input')
    BY <1>2 DEF PullError, TypeOK
  <2>4. QED
    BY <1>2, <2>2, <2>3 DEF PullError, TypeOK
<1>3. CASE PullEnd
  BY <1>3 DEF PullEnd, TypeOK
<1>4. CASE writer_factory
  <2>1. tag \in Tags /\ pc \in AtHand
    BY <1>4, BatchAtHand DEF writer_factory, AtHand
  <2>2. CASE CallFails("create")
    BY <2>1, <2>2, CallFailsTyped DEF CallFails
  <2>3. CASE pc' = "open" /\ UNCHANGED <<input, at>>
    <3>1. tag' = tag /\ at' > 0
      BY <2>1, <2>3, BatchAtHand DEF tag
    <3>2. /\ file' = [file EXCEPT ![tag] = "created"]
          /\ content' = [content EXCEPT ![tag] = <<>>]
          /\ UNCHANGED <<input, at, writers, populate_result, first_err, result,
                         errors>>
      BY <1>4, <2>3 DEF writer_factory, CallFails, Stop
    <3>3. content' \in [Tags -> Seq(Nat)]
      BY <2>1, <3>2 DEF TypeOK
    <3>4. QED
      BY <2>1, <2>3, <3>1, <3>2, <3>3 DEF TypeOK
  <2>4. QED
    BY <1>4, <2>2, <2>3 DEF writer_factory
<1>5. CASE open
  <2>1. tag \in Tags /\ pc \in AtHand
    BY <1>5, BatchAtHand DEF open, AtHand
  <2>2. CASE CallFails("open")
    BY <2>1, <2>2, CallFailsTyped DEF CallFails
  <2>3. CASE pc' = "write" /\ UNCHANGED <<input, at>>
    <3>1. tag' = tag /\ at' > 0
      BY <2>1, <2>3, BatchAtHand DEF tag
    <3>2. QED
      BY <1>5, <2>1, <2>3, <3>1 DEF open, CallFails, Stop, TypeOK
  <2>4. QED
    BY <1>5, <2>2, <2>3 DEF open
<1>6. CASE write
  <2>1. tag \in Tags /\ pc \in AtHand /\ at \in Nat
    BY <1>6, BatchAtHand DEF write, AtHand
  <2>2. CASE CallFails("write")
    BY <2>1, <2>2, CallFailsTyped DEF CallFails
  <2>3. CASE pc' = "pull" /\ content' = [content EXCEPT ![tag] = Append(@, at)]
    <3>1. content' \in [Tags -> Seq(Nat)]
      BY <2>1, <2>3 DEF TypeOK
    <3>2. QED
      BY <1>6, <2>1, <2>3, <3>1 DEF write, CallFails, Stop, TypeOK
  <2>4. QED
    BY <1>6, <2>2, <2>3 DEF write
<1>7. CASE Close
  BY <1>7, CloseWithTyped DEF Close
<1>8. CASE CloseFails
  BY <1>8, CloseWithTyped DEF CloseFails
<1>9. CASE Return
  <2>1. result' \in Seq(Errors \cup {Ok})
    BY <1>9 DEF Return, Outcome, TypeOK
  <2>2. QED
    BY <1>9, <2>1 DEF Return, TypeOK
<1>10. CASE UNCHANGED vars
  BY <1>10 DEF vars, TypeOK, tag
<1>11. QED
  BY <1>1, <1>2, <1>3, <1>4, <1>5, <1>6, <1>7, <1>8, <1>9, <1>10
     DEF Next, Step, Returned

(***************************************************************************)
(* Every local of run_writer_pipeline and close_all keeps its type, and a  *)
(* callback is only called with a batch at hand.                           *)
(***************************************************************************)
THEOREM TypeCorrect == Spec => []TypeOK
<1>1. Init => TypeOK
  BY InitTyped
<1>2. TypeOK /\ [Next]_vars => TypeOK'
  BY NextTyped
<1>3. QED
  BY <1>1, <1>2, PTL DEF Spec

-----------------------------------------------------------------------------
(***************************************************************************)
(* The error that will be returned is always the first that occurred, and  *)
(* before the writers are closed none has.                                 *)
(***************************************************************************)
ErrorInv ==
  /\ pc \in AtHand \cup {"pull"} => errors = <<>> /\ first_err = Ok
  /\ Outcome = IF errors = <<>> THEN Ok ELSE errors[1]
  /\ result = IF pc = "done" THEN <<Outcome>> ELSE <<>>

LEMMA InitErrors == Init => ErrorInv
BY DEF Init, ErrorInv, Outcome, AtHand

\* The first error stops the populate loop.
LEMMA StopErrors ==
  ASSUME ErrorInv, pc \in AtHand \cup {"pull"}, NEW e \in Errors, Stop(e),
         UNCHANGED <<first_err, result>>
  PROVE  ErrorInv'
<1>1. e # Ok
  BY ErrorIsNotOk
<1>2. errors' # <<>> /\ errors'[1] = e
  <2>1. errors = <<>>
    BY DEF ErrorInv
  <2>2. errors' = Append(<<>>, e)
    BY <2>1 DEF Stop
  <2>3. QED
    BY <2>2
<1>3. Outcome' = e
  BY <1>1 DEF Outcome, Stop
<1>4. pc' = "close" /\ pc # "done"
  BY DEF Stop, AtHand
<1>5. QED
  BY <1>2, <1>3, <1>4 DEF ErrorInv, AtHand

\* A close error comes behind the error of the loop and earlier close errors.
LEMMA CloseErrors ==
  ASSUME TypeOK, ErrorInv, pc = "close", UNCHANGED <<pc, populate_result, result>>,
         NEW e \in Errors,
         first_err' = IF first_err = Ok THEN e ELSE first_err,
         errors' = Append(errors, e)
  PROVE  ErrorInv'
<1>1. e # Ok /\ errors \in Seq(Errors)
  BY ErrorIsNotOk DEF TypeOK
<1>2. errors' # <<>>
  BY <1>1
<1>3. CASE errors = <<>>
  <2>1. populate_result = Ok /\ first_err = Ok
    BY <1>3 DEF ErrorInv, Outcome
  <2>2. Outcome' = e
    BY <2>1 DEF Outcome
  <2>3. errors'[1] = e
    BY <1>3
  <2>4. QED
    BY <1>2, <2>2, <2>3 DEF ErrorInv, AtHand
<1>4. CASE errors # <<>>
  <2>1. errors'[1] = errors[1] /\ errors[1] \in Errors
    BY <1>1, <1>4
  <2>2. Outcome = errors[1] /\ Outcome # Ok
    BY <1>4, <2>1, ErrorIsNotOk DEF ErrorInv
  <2>3. Outcome' = Outcome
    BY <2>2 DEF Outcome
  <2>4. QED
    BY <1>2, <2>1, <2>2, <2>3 DEF ErrorInv, AtHand
<1>5. QED
  BY <1>3, <1>4

\* A step that leaves the errors alone and does not return.
LEMMA QuietErrors ==
  ASSUME ErrorInv, UNCHANGED <<populate_result, first_err, result, errors>>,
         pc' # "done" <=> pc # "done",
         pc' \in AtHand \cup {"pull"} => pc \in AtHand \cup {"pull"}
  PROVE  ErrorInv'
BY DEF ErrorInv, Outcome

LEMMA NextErrors == TypeOK /\ ErrorInv /\ [Next]_vars => ErrorInv'
<1> SUFFICES ASSUME TypeOK, ErrorInv, [Next]_vars PROVE ErrorInv'
  OBVIOUS
<1>1. CASE PullBatch \/ PullEnd
  BY <1>1, QuietErrors DEF PullBatch, PullEnd, AtHand
<1>2. CASE PullError
  <2>1. Upstream \in Errors
    BY DEF Errors
  <2>2. QED
    BY <1>2, <2>1, StopErrors DEF PullError
<1>3. ASSUME NEW op \in Faults, pc \in AtHand, CallFails(op)
      PROVE  ErrorInv'
  <2>1. Failed(op, tag) \in Errors
    BY <1>3, BatchAtHand, FailedIsError
  <2>2. QED
    BY <1>3, <2>1, StopErrors DEF CallFails
<1>4. CASE writer_factory
  <2>1. CASE CallFails("create")
    BY <1>3, <1>4, <2>1 DEF writer_factory, AtHand, CallFails
  <2>2. CASE ~CallFails("create")
    BY <1>4, <2>2, QuietErrors DEF writer_factory, AtHand
  <2>3. QED
    BY <2>1, <2>2
<1>5. CASE open
  <2>1. CASE CallFails("open")
    BY <1>3, <1>5, <2>1 DEF open, AtHand, CallFails
  <2>2. CASE ~CallFails("open")
    BY <1>5, <2>2, QuietErrors DEF open, AtHand
  <2>3. QED
    BY <2>1, <2>2
<1>6. CASE write
  <2>1. CASE CallFails("write")
    BY <1>3, <1>6, <2>1 DEF write, AtHand, CallFails
  <2>2. CASE ~CallFails("write")
    BY <1>6, <2>2, QuietErrors DEF write, AtHand
  <2>3. QED
    BY <2>1, <2>2
<1>7. CASE Close
  BY <1>7, QuietErrors DEF Close, CloseWith
<1>8. CASE CloseFails
  <2>1. PICK t \in Tags :
          /\ first_err' = IF first_err = Ok THEN Failed("close", t)
                          ELSE first_err
          /\ errors' = Append(errors, Failed("close", t))
    BY <1>8 DEF CloseFails, CloseWith
  <2>2. Failed("close", t) \in Errors
    BY <1>8, FailedIsError DEF CloseFails
  <2>3. QED
    BY <1>8, <2>1, <2>2, CloseErrors DEF CloseFails
<1>9. CASE Return
  BY <1>9 DEF Return, ErrorInv, Outcome, AtHand
<1>10. CASE UNCHANGED vars
  BY <1>10, QuietErrors DEF vars
<1>11. QED
  BY <1>1, <1>2, <1>4, <1>5, <1>6, <1>7, <1>8, <1>9, <1>10
     DEF Next, Step, Returned

(***************************************************************************)
(* No error is lost and the first one wins: run_writer_pipeline returns    *)
(* the error of the populate loop, else the first of close_all, else Ok.   *)
(***************************************************************************)
THEOREM FirstErrorWins == Spec => []FirstErrorReported
<1>1. Init => TypeOK /\ ErrorInv
  BY InitTyped, InitErrors
<1>2. TypeOK /\ ErrorInv /\ [Next]_vars => (TypeOK /\ ErrorInv)'
  BY NextTyped, NextErrors
<1>3. ErrorInv => FirstErrorReported
  BY DEF ErrorInv, FirstErrorReported
<1>4. QED
  BY <1>1, <1>2, <1>3, PTL DEF Spec

(***************************************************************************)
(* After the first error nothing is pulled, written or opened any more.    *)
(***************************************************************************)
THEOREM ErrorStopsExport == Spec => NothingAfterError
<1>1. Init => TypeOK /\ ErrorInv
  BY InitTyped, InitErrors
<1>2. TypeOK /\ ErrorInv /\ [Next]_vars => (TypeOK /\ ErrorInv)'
  BY NextTyped, NextErrors
<1>3. ErrorInv /\ [Next]_vars
        => [errors # <<>> => UNCHANGED <<at, content>>
                             /\ writers' \subseteq writers]_vars
  <2> SUFFICES ASSUME ErrorInv, Next, errors # <<>>
               PROVE  UNCHANGED <<at, content>> /\ writers' \subseteq writers
    OBVIOUS
  <2>1. pc \notin AtHand \cup {"pull"}
    BY DEF ErrorInv
  <2>2. Close \/ CloseFails \/ Return \/ Returned
    BY <2>1 DEF Next, Step, AtHand, PullBatch, PullError, PullEnd,
                writer_factory, open, write
  <2>3. CASE Close \/ CloseFails
    BY <2>3 DEF Close, CloseFails, CloseWith
  <2>4. CASE Return \/ Returned
    BY <2>4 DEF Return, Returned, vars
  <2>5. QED
    BY <2>2, <2>3, <2>4
<1>4. QED
  BY <1>1, <1>2, <1>3, PTL DEF Spec, NothingAfterError

-----------------------------------------------------------------------------
(***************************************************************************)
(* The map of writers and the files agree: a type is in the map while its  *)
(* file has a writer that was not closed.  A file that was created and has *)
(* no writer is the one at hand, or the one whose open failed.             *)
(***************************************************************************)
AtHandInv ==
  /\ pc = "create" => file[tag] = "absent"
  /\ pc = "open" => file[tag] = "created"
  /\ pc = "write" => file[tag] = "open"

WriterOf(t) ==
  /\ t \in writers <=> file[t] = "open"
  /\ file[t] = "created" => \/ pc = "open" /\ t = tag
                            \/ populate_result = Failed("open", t)
  /\ file[t] = "closed" => pc \in {"close", "done"}
  /\ file[t] = "broken" => first_err # Ok

WritersInv ==
  /\ AtHandInv
  /\ pc = "done" => writers = {}
  /\ \A t \in Tags : WriterOf(t)

LEMMA InitWriters == Init => WritersInv
BY DEF Init, WritersInv, AtHandInv, WriterOf

\* A failing callback.
LEMMA CallFailsWriters ==
  ASSUME TypeOK, ErrorInv, WritersInv, pc \in AtHand, NEW op \in Faults,
         CallFails(op), pc = "open" => op = "open"
  PROVE  WritersInv'
<1>1. tag \in Tags
  BY BatchAtHand
<1>2. populate_result = Ok
  BY DEF ErrorInv, Outcome, AtHand
<1>3. ASSUME NEW t \in Tags PROVE WriterOf(t)'
  <2>1. WriterOf(t) /\ populate_result # Failed("open", t)
    <3>1. Ok.op # Failed("open", t).op
      BY DEF Ok, Failed
    <3>2. QED
      BY <1>2, <3>1 DEF WritersInv
  <2>2. file[t] = "created" => pc = "open" /\ t = tag
    BY <2>1 DEF WriterOf
  <2>3. populate_result' = Failed(op, tag) /\ pc' = "close"
    BY DEF CallFails, Stop
  <2>4. QED
    BY <2>1, <2>2, <2>3 DEF WriterOf, CallFails
<1>4. pc' = "close"
  BY DEF CallFails, Stop
<1>5. QED
  BY <1>3, <1>4 DEF WritersInv, AtHandInv

\* A step of close_all.
LEMMA CloseWithWriters ==
  ASSUME TypeOK, WritersInv, pc = "close", NEW s \in {"closed", "broken"},
         CloseWith(s), UNCHANGED <<input, at, pc, populate_result>>
  PROVE  WritersInv'
<1>1. PICK t \in Tags :
        /\ writers' = writers \ {t}
        /\ file' = [file EXCEPT ![t] = s]
        /\ IF s = "closed" THEN UNCHANGED <<first_err, errors>>
           ELSE /\ first_err' = IF first_err = Ok THEN Failed("close", t)
                                ELSE first_err
                /\ errors' = Append(errors, Failed("close", t))
  BY DEF CloseWith
<1>2. first_err # Ok => first_err' # Ok
  BY <1>1
<1>3. s = "broken" => first_err' # Ok
  <2>1. Failed("close", t).op # Ok.op
    BY DEF Failed, Ok
  <2>2. QED
    BY <1>1, <2>1
<1>4. ASSUME NEW u \in Tags PROVE WriterOf(u)'
  <2>1. WriterOf(u)
    BY DEF WritersInv
  <2>2. file'[u] = IF u = t THEN s ELSE file[u]
    BY <1>1 DEF TypeOK
  <2>3. CASE u = t
    BY <1>1, <1>3, <2>2, <2>3 DEF WriterOf
  <2>4. CASE u # t
    <3>1. (u \in writers' <=> u \in writers) /\ file'[u] = file[u]
      BY <1>1, <2>2, <2>4
    <3>2. QED
      BY <1>2, <2>1, <3>1 DEF WriterOf
  <2>5. QED
    BY <2>3, <2>4
<1>5. QED
  BY <1>4 DEF WritersInv, AtHandInv

LEMMA NextWriters ==
  TypeOK /\ ErrorInv /\ WritersInv /\ [Next]_vars => WritersInv'
<1> SUFFICES ASSUME TypeOK, ErrorInv, WritersInv, [Next]_vars
             PROVE  WritersInv'
  OBVIOUS
<1>1. CASE PullBatch
  <2>1. /\ populate_result = Ok /\ first_err = Ok
    BY <1>1 DEF PullBatch, ErrorInv, Outcome
  <2>2. ASSUME NEW t \in Tags
        PROVE  file[t] \in {"absent", "open"} /\ WriterOf(t)'
    <3>1. WriterOf(t)
      BY DEF WritersInv
    <3>2. populate_result # Failed("open", t)
      <4>1. Ok.op # Failed("open", t).op
        BY DEF Ok, Failed
      <4>2. QED
        BY <2>1, <4>1
    <3>3. file[t] \in {"absent", "open"}
      BY <1>1, <2>1, <3>1, <3>2 DEF WriterOf, PullBatch, TypeOK
    <3>4. QED
      BY <1>1, <3>1, <3>3 DEF WriterOf, PullBatch
  <2>3. tag' \in Tags /\ pc' = IF tag' \in writers THEN "write" ELSE "create"
    BY <1>1 DEF PullBatch, TypeOK, tag
  <2>4. file'[tag'] = IF tag' \in writers THEN "open" ELSE "absent"
    <3>1. WriterOf(tag') /\ file[tag'] \in {"absent", "open"}
      BY <2>2, <2>3 DEF WritersInv
    <3>2. QED
      BY <1>1, <3>1 DEF WriterOf, PullBatch
  <2>5. QED
    BY <1>1, <2>2, <2>3, <2>4 DEF WritersInv, AtHandInv, PullBatch
<1>2. CASE PullError
  <2>1. populate_result = Ok
    BY <1>2 DEF PullError, ErrorInv, Outcome
  <2>2. ASSUME NEW t \in Tags PROVE WriterOf(t)'
    <3>1. Ok.op # Failed("open", t).op
      BY DEF Ok, Failed
    <3>2. QED
      BY <1>2, <2>1, <3>1 DEF WritersInv, WriterOf, PullError, Stop
  <2>3. pc' = "close"
    BY <1>2 DEF PullError, Stop
  <2>4. QED
    BY <2>2, <2>3 DEF WritersInv, AtHandInv
<1>3. CASE PullEnd
  BY <1>3 DEF PullEnd, WritersInv, WriterOf, AtHandInv
<1>4. CASE writer_factory
  <2>1. tag \in Tags /\ pc \in AtHand
    BY <1>4, BatchAtHand DEF writer_factory, AtHand
  <2>2. CASE CallFails("create")
    BY <1>4, <2>1, <2>2, CallFailsWriters DEF CallFails, writer_factory
  <2>3. CASE ~CallFails("create")
    <3>1. /\ pc = "create" /\ pc' = "open" /\ tag' = tag
          /\ file' = [file EXCEPT ![tag] = "created"]
          /\ UNCHANGED <<writers, populate_result, first_err>>
      BY <1>4, <2>3 DEF writer_factory, tag
    <3>2. file[tag] = "absent"
      BY <3>1 DEF WritersInv, AtHandInv
    <3>3. ASSUME NEW t \in Tags PROVE WriterOf(t)'
      <4>1. file'[t] = IF t = tag THEN "created" ELSE file[t]
        BY <3>1 DEF TypeOK
      <4>2. QED
        BY <3>1, <3>2, <4>1 DEF WritersInv, WriterOf
    <3>4. file'[tag'] = "created"
      BY <2>1, <3>1 DEF TypeOK
    <3>5. QED
      BY <3>1, <3>3, <3>4 DEF WritersInv, AtHandInv
  <2>4. QED
    BY <2>2, <2>3
<1>5. CASE open
  <2>1. tag \in Tags /\ pc \in AtHand
    BY <1>5, BatchAtHand DEF open, AtHand
  <2>2. CASE CallFails("open")
    BY <2>1, <2>2, CallFailsWriters DEF CallFails
  <2>3. CASE ~CallFails("open")
    <3>1. /\ pc = "open" /\ pc' = "write" /\ tag' = tag
          /\ file' = [file EXCEPT ![tag] = "open"]
          /\ writers' = writers \cup {tag}
          /\ UNCHANGED <<populate_result, first_err>>
      BY <1>5, <2>3 DEF open, tag
    <3>2. ASSUME NEW t \in Tags PROVE WriterOf(t)'
      <4>1. file'[t] = IF t = tag THEN "open" ELSE file[t]
        BY <3>1 DEF TypeOK
      <4>2. QED
        BY <3>1, <4>1 DEF WritersInv, WriterOf
    <3>3. file'[tag'] = "open"
      BY <2>1, <3>1 DEF TypeOK
    <3>4. QED
      BY <3>1, <3>2, <3>3 DEF WritersInv, AtHandInv
  <2>4. QED
    BY <2>2, <2>3
<1>6. CASE write
  <2>1. tag \in Tags /\ pc \in AtHand
    BY <1>6, BatchAtHand DEF write, AtHand
  <2>2. CASE CallFails("write")
    BY <1>6, <2>1, <2>2, CallFailsWriters DEF CallFails, write
  <2>3. CASE ~CallFails("write")
    BY <1>6, <2>3 DEF write, WritersInv, WriterOf, AtHandInv
  <2>4. QED
    BY <2>2, <2>3
<1>7. CASE Close
  BY <1>7, CloseWithWriters DEF Close
<1>8. CASE CloseFails
  BY <1>8, CloseWithWriters DEF CloseFails
<1>9. CASE Return
  BY <1>9 DEF Return, WritersInv, WriterOf, AtHandInv
<1>10. CASE UNCHANGED vars
  BY <1>10 DEF vars, WritersInv, WriterOf, AtHandInv, tag
<1>11. QED
  BY <1>1, <1>2, <1>3, <1>4, <1>5, <1>6, <1>7, <1>8, <1>9, <1>10
     DEF Next, Step, Returned

(***************************************************************************)
(* However the export ends, every writer that was opened was closed, and a *)
(* file that was created without one is reported by the result.            *)
(***************************************************************************)
THEOREM WritersFinalized == Spec => []EveryWriterFinalized
<1>1. Init => TypeOK /\ ErrorInv /\ WritersInv
  BY InitTyped, InitErrors, InitWriters
<1>2. TypeOK /\ ErrorInv /\ WritersInv /\ [Next]_vars
        => (TypeOK /\ ErrorInv /\ WritersInv)'
  BY NextTyped, NextErrors, NextWriters
<1>3. ErrorInv /\ WritersInv => EveryWriterFinalized
  <2> SUFFICES ASSUME ErrorInv, WritersInv, pc = "done", NEW t \in Tags
               PROVE  /\ file[t] # "open"
                      /\ file[t] = "created" => result = <<Failed("open", t)>>
    BY DEF EveryWriterFinalized
  <2>1. file[t] # "open"
    BY DEF WritersInv, WriterOf
  <2>2. ASSUME file[t] = "created" PROVE result = <<Failed("open", t)>>
    <3>1. populate_result = Failed("open", t)
      BY <2>2 DEF WritersInv, WriterOf
    <3>2. Failed("open", t).op # Ok.op
      BY DEF Failed, Ok
    <3>3. QED
      BY <3>1, <3>2 DEF ErrorInv, Outcome
  <2>3. QED
    BY <2>1, <2>2
<1>4. QED
  BY <1>1, <1>2, <1>3, PTL DEF Spec

-----------------------------------------------------------------------------
(***************************************************************************)
(* Until something fails, the file of each type holds the batches of that  *)
(* type among the results that were dealt with, in their order.            *)
(***************************************************************************)
Dealt == IF pc \in AtHand THEN at - 1 ELSE at

Increasing(c) == \A i, j \in DOMAIN c : i < j => c[i] < c[j]

\* c are the positions up to n at which "in" has t.
HoldsUpTo(c, in, n, t) ==
  /\ Increasing(c)
  /\ \A i \in DOMAIN c : c[i] \in 1..n /\ in[c[i]] = t
  /\ \A k \in 1..n : in[k] = t => \E i \in DOMAIN c : c[i] = k

EmptyUnopened(t) ==
  /\ file[t] \in {"absent", "created"} => content[t] = <<>>
  /\ content[t] = <<>> =>
       file[t] = "absent" \/ (pc \in {"open", "write"} /\ t = tag)

HoldsDealt(t) == HoldsUpTo(content[t], input, Dealt, t) /\ EmptyUnopened(t)

ContentInv ==
  errors = <<>> =>
    /\ \A t \in Tags : HoldsDealt(t)
    /\ pc \in {"close", "done"} => at = Len(input)

\* A batch is appended behind those before it.
LEMMA AppendIncreasing ==
  ASSUME NEW c \in Seq(Nat), NEW n \in Nat, Increasing(c),
         \A i \in DOMAIN c : c[i] < n
  PROVE  /\ Increasing(Append(c, n))
         /\ DOMAIN Append(c, n) = 1..(Len(c) + 1)
         /\ \A i \in DOMAIN c : i \in DOMAIN Append(c, n) /\ Append(c, n)[i] = c[i]
         /\ Append(c, n)[Len(c) + 1] = n
         /\ Append(c, n) # <<>>
<1> DEFINE d == Append(c, n)
<1>1. /\ d \in Seq(Nat) /\ Len(d) = Len(c) + 1 /\ d[Len(c) + 1] = n
      /\ \A i \in 1..Len(c) : d[i] = c[i]
  OBVIOUS
<1>2. DOMAIN d = 1..(Len(c) + 1) /\ DOMAIN c = 1..Len(c) /\ Len(c) \in Nat
  BY <1>1
<1>3. ASSUME NEW i \in DOMAIN d, NEW j \in DOMAIN d, i < j
      PROVE  d[i] < d[j]
  <2>1. i \in DOMAIN c /\ d[i] = c[i]
    BY <1>1, <1>2, <1>3
  <2>2. CASE j = Len(c) + 1
    BY <1>1, <2>1, <2>2
  <2>3. CASE j # Len(c) + 1
    <3>1. j \in DOMAIN c /\ d[j] = c[j]
      BY <1>1, <1>2, <2>3
    <3>2. QED
      BY <1>3, <2>1, <3>1 DEF Increasing
  <2>4. QED
    BY <2>2, <2>3
<1>4. Increasing(d)
  BY <1>3 DEF Increasing
<1>5. d # <<>>
  BY <1>1, <1>2
<1>6. QED
  BY <1>1, <1>2, <1>4, <1>5

\* What decides whether the files hold what was dealt with.
LEMMA SameContent ==
  ASSUME ContentInv, UNCHANGED <<input, content, file, errors>>, Dealt' = Dealt,
         pc \in {"open", "write"} => pc' = pc /\ tag' = tag,
         pc' \in {"close", "done"} =>
           at' = Len(input) \/ (pc \in {"close", "done"} /\ at' = at)
  PROVE  ContentInv'
<1> SUFFICES ASSUME errors = <<>>
             PROVE  /\ \A t \in Tags : HoldsDealt(t)'
                    /\ pc' \in {"close", "done"} => at' = Len(input')
  BY DEF ContentInv
<1>1. ASSUME NEW t \in Tags PROVE HoldsDealt(t)'
  <2>1. HoldsDealt(t) /\ Dealt' = Dealt
    BY DEF ContentInv
  <2>2. EmptyUnopened(t)'
    BY <2>1 DEF HoldsDealt, EmptyUnopened
  <2>3. QED
    BY <2>1, <2>2 DEF HoldsDealt
<1>2. pc' \in {"close", "done"} => at' = Len(input')
  BY DEF ContentInv
<1>3. QED
  BY <1>1, <1>2

LEMMA InitContent == Init => ContentInv
<1> SUFFICES ASSUME Init PROVE ContentInv
  OBVIOUS
<1>1. Dealt = 0
  BY DEF Init, Dealt, AtHand
<1>2. ASSUME NEW t \in Tags PROVE HoldsDealt(t)
  <2>1. content[t] = <<>> /\ file[t] = "absent"
    BY <1>1 DEF Init
  <2>2. HoldsUpTo(<<>>, input, 0, t)
    BY DEF HoldsUpTo, Increasing
  <2>3. QED
    BY <1>1, <2>1, <2>2 DEF HoldsDealt, EmptyUnopened
<1>3. QED
  BY <1>2 DEF ContentInv, Init

\* With an error nothing is claimed.
LEMMA ErrorContent ==
  ASSUME TypeOK, NEW e \in Errors, errors' = Append(errors, e)
  PROVE  ContentInv'
<1>1. errors' # <<>>
  BY DEF TypeOK
<1>2. QED
  BY <1>1 DEF ContentInv

LEMMA CallFailsContent ==
  ASSUME TypeOK, pc \in AtHand, NEW op \in Faults, CallFails(op)
  PROVE  ContentInv'
<1>1. Failed(op, tag) \in Errors
  BY BatchAtHand, FailedIsError
<1>2. QED
  BY <1>1, ErrorContent DEF CallFails, Stop

\* close_all takes no file back to a state that content depends on.
LEMMA CloseContent ==
  ASSUME TypeOK, WritersInv, ContentInv, pc = "close", CloseWith("closed"),
         UNCHANGED <<input, at, pc, content>>
  PROVE  ContentInv'
<1> SUFFICES ASSUME errors = <<>>
             PROVE  /\ \A t \in Tags : HoldsDealt(t)'
                    /\ pc' \in {"close", "done"} => at' = Len(input')
  BY DEF CloseWith, ContentInv
<1>1. PICK u \in Tags : First(u) /\ file' = [file EXCEPT ![u] = "closed"]
  BY DEF CloseWith
<1>2. file[u] = "open"
  BY <1>1 DEF First, WritersInv, WriterOf
<1>3. ASSUME NEW t \in Tags PROVE HoldsDealt(t)'
  <2>1. HoldsDealt(t)
    BY DEF ContentInv
  <2>2. file'[t] = IF t = u THEN "closed" ELSE file[t]
    BY <1>1 DEF TypeOK
  <2>3. Dealt' = Dealt
    BY DEF Dealt
  <2>4. EmptyUnopened(t)'
    <3>1. EmptyUnopened(t) /\ content'[t] = content[t]
      BY <2>1 DEF HoldsDealt
    <3>2. content[t] = <<>> => file[t] = "absent"
      BY <3>1 DEF EmptyUnopened
    <3>3. QED
      BY <1>2, <2>2, <3>1, <3>2 DEF EmptyUnopened
  <2>5. QED
    BY <2>1, <2>3, <2>4 DEF HoldsDealt
<1>4. QED
  BY <1>3 DEF ContentInv

\* The positions up to n - 1, and n, are those up to n.
LEMMA AppendHolds ==
  ASSUME NEW c \in Seq(Nat), NEW in, NEW n \in Nat \ {0},
         HoldsUpTo(c, in, n - 1, in[n])
  PROVE  HoldsUpTo(Append(c, n), in, n, in[n])
<1> DEFINE d == Append(c, n)
<1>1. \A i \in DOMAIN c : c[i] < n /\ c[i] \in 1..n
  BY DEF HoldsUpTo
<1>2. /\ Increasing(d)
      /\ DOMAIN d = 1..(Len(c) + 1)
      /\ \A i \in DOMAIN c : i \in DOMAIN d /\ d[i] = c[i]
      /\ d[Len(c) + 1] = n
  BY <1>1, AppendIncreasing DEF HoldsUpTo
<1>3. ASSUME NEW i \in DOMAIN d PROVE d[i] \in 1..n /\ in[d[i]] = in[n]
  <2>1. CASE i = Len(c) + 1
    BY <1>2, <2>1
  <2>2. CASE i # Len(c) + 1
    <3>1. i \in DOMAIN c
      BY <1>2, <2>2
    <3>2. d[i] = c[i] /\ in[c[i]] = in[n]
      BY <1>2, <3>1 DEF HoldsUpTo
    <3>3. QED
      BY <1>1, <3>1, <3>2
  <2>3. QED
    BY <2>1, <2>2
<1>4. ASSUME NEW k \in 1..n, in[k] = in[n] PROVE \E i \in DOMAIN d : d[i] = k
  <2>1. CASE k = n
    BY <1>2, <2>1
  <2>2. CASE k # n
    <3>1. k \in 1..(n - 1)
      BY <2>2
    <3>2. PICK i \in DOMAIN c : c[i] = k
      BY <1>4, <3>1 DEF HoldsUpTo
    <3>3. QED
      BY <1>2, <3>2
  <2>3. QED
    BY <2>1, <2>2
<1>5. QED
  BY <1>2, <1>3, <1>4 DEF HoldsUpTo

\* For the other types nothing is added at n.
LEMMA OthersHold ==
  ASSUME NEW c, NEW in, NEW n \in Nat \ {0}, NEW t, in[n] # t,
         HoldsUpTo(c, in, n - 1, t)
  PROVE  HoldsUpTo(c, in, n, t)
<1>1. \A i \in DOMAIN c : c[i] \in 1..n /\ in[c[i]] = t
  BY DEF HoldsUpTo
<1>2. ASSUME NEW k \in 1..n, in[k] = t PROVE \E i \in DOMAIN c : c[i] = k
  <2>1. k \in 1..(n - 1)
    BY <1>2
  <2>2. QED
    BY <1>2, <2>1 DEF HoldsUpTo
<1>3. QED
  BY <1>1, <1>2 DEF HoldsUpTo

LEMMA NextContent ==
  TypeOK /\ ErrorInv /\ WritersInv /\ ContentInv /\ [Next]_vars => ContentInv'
<1> SUFFICES ASSUME TypeOK, ErrorInv, WritersInv, ContentInv, [Next]_vars
             PROVE  ContentInv'
  OBVIOUS
<1>1. CASE PullBatch
  <2>1. Dealt' = Dealt
    BY <1>1 DEF PullBatch, Dealt, AtHand, TypeOK
  <2>2. pc = "pull" /\ pc' \in {"create", "write"}
        /\ UNCHANGED <<input, content, file, errors>>
    BY <1>1 DEF PullBatch
  <2>3. QED
    BY <2>1, <2>2, SameContent
<1>2. CASE PullError
  <2>1. Upstream \in Errors
    BY DEF Errors
  <2>2. QED
    BY <1>2, <2>1, ErrorContent DEF PullError, Stop
<1>3. CASE PullEnd
  <2>1. Dealt' = Dealt
    BY <1>3 DEF PullEnd, Dealt, AtHand
  <2>2. pc = "pull" /\ at' = Len(input)
        /\ UNCHANGED <<input, content, file, errors>>
    BY <1>3 DEF PullEnd
  <2>3. QED
    BY <2>1, <2>2, SameContent
<1>4. CASE writer_factory
  <2>1. pc \in AtHand /\ pc = "create"
    BY <1>4 DEF writer_factory, AtHand
  <2>2. CASE CallFails("create")
    BY <2>1, <2>2, CallFailsContent DEF CallFails
  <2>3. CASE ~CallFails("create")
    <3>1. /\ pc' = "open" /\ file' = [file EXCEPT ![tag] = "created"]
          /\ content' = [content EXCEPT ![tag] = <<>>]
          /\ UNCHANGED <<input, at, errors>>
      BY <1>4, <2>3 DEF writer_factory
    <3>2. errors = <<>> /\ file[tag] = "absent" /\ tag \in Tags /\ tag' = tag
      BY <2>1, <3>1, BatchAtHand DEF ErrorInv, WritersInv, AtHandInv, tag
    <3>3. Dealt' = Dealt
      BY <2>1, <3>1 DEF Dealt, AtHand
    <3>4. ASSUME NEW t \in Tags PROVE HoldsDealt(t)'
      <4>1. HoldsDealt(t)
        BY <3>2 DEF ContentInv
      <4>2. content'[t] = content[t]
        BY <3>1, <3>2, <4>1 DEF TypeOK, HoldsDealt, EmptyUnopened
      <4>3. file'[t] = IF t = tag THEN "created" ELSE file[t]
        BY <3>1 DEF TypeOK
      <4>4. EmptyUnopened(t)'
        BY <2>1, <3>1, <3>2, <4>1, <4>2, <4>3 DEF HoldsDealt, EmptyUnopened
      <4>5. QED
        BY <3>1, <3>3, <4>1, <4>2, <4>4 DEF HoldsDealt
    <3>5. QED
      BY <3>1, <3>4 DEF ContentInv
  <2>4. QED
    BY <2>2, <2>3
<1>5. CASE open
  <2>1. pc \in AtHand /\ pc = "open"
    BY <1>5 DEF open, AtHand
  <2>2. CASE CallFails("open")
    BY <2>1, <2>2, CallFailsContent DEF CallFails
  <2>3. CASE ~CallFails("open")
    <3>1. /\ pc' = "write" /\ file' = [file EXCEPT ![tag] = "open"]
          /\ UNCHANGED <<input, at, content, errors>>
      BY <1>5, <2>3 DEF open
    <3>2. errors = <<>> /\ tag \in Tags /\ tag' = tag
      BY <2>1, <3>1, BatchAtHand DEF ErrorInv, tag
    <3>3. Dealt' = Dealt
      BY <2>1, <3>1 DEF Dealt, AtHand
    <3>4. ASSUME NEW t \in Tags PROVE HoldsDealt(t)'
      <4>1. HoldsDealt(t)
        BY <3>2 DEF ContentInv
      <4>2. file'[t] = IF t = tag THEN "open" ELSE file[t]
        BY <3>1 DEF TypeOK
      <4>3. EmptyUnopened(t)'
        BY <2>1, <3>1, <3>2, <4>1, <4>2 DEF HoldsDealt, EmptyUnopened
      <4>4. QED
        BY <3>1, <3>3, <4>1, <4>3 DEF HoldsDealt
    <3>5. QED
      BY <3>1, <3>4 DEF ContentInv
  <2>4. QED
    BY <2>2, <2>3
<1>6. CASE write
  <2>1. pc \in AtHand /\ pc = "write"
    BY <1>6 DEF write, AtHand
  <2>2. CASE CallFails("write")
    BY <2>1, <2>2, CallFailsContent DEF CallFails
  <2>3. CASE ~CallFails("write")
    <3>1. /\ pc' = "pull" /\ content' = [content EXCEPT ![tag] = Append(@, at)]
          /\ UNCHANGED <<input, at, file, errors>>
      BY <1>6, <2>3 DEF write
    <3>2. errors = <<>> /\ tag \in Tags /\ at \in Nat \ {0}
      BY <2>1, BatchAtHand DEF ErrorInv, TypeOK
    <3>3. Dealt = at - 1 /\ Dealt' = at
      BY <2>1, <3>1 DEF Dealt, AtHand
    <3>4. file[tag] = "open"
      BY <2>1 DEF WritersInv, AtHandInv
    <3>5. ASSUME NEW t \in Tags PROVE HoldsDealt(t)'
      <4>1. HoldsDealt(t) /\ content[t] \in Seq(Nat)
        BY <3>2 DEF ContentInv, TypeOK
      <4>2. CASE t = tag
        <5>1. content'[t] = Append(content[t], at)
          BY <3>1, <3>2, <4>2 DEF TypeOK
        <5>2. HoldsUpTo(content'[t], input, at, t)
          BY <3>2, <3>3, <4>1, <4>2, <5>1, AppendHolds DEF HoldsDealt, tag
        <5>3. content'[t] # <<>>
          BY <3>2, <4>1, <5>1
        <5>4. EmptyUnopened(t)'
          BY <3>1, <3>4, <4>2, <5>3 DEF EmptyUnopened
        <5>5. QED
          BY <3>1, <3>3, <5>2, <5>4 DEF HoldsDealt
      <4>3. CASE t # tag
        <5>1. content'[t] = content[t]
          BY <3>1, <3>2, <4>3 DEF TypeOK
        <5>2. HoldsUpTo(content[t], input, at, t)
          BY <3>2, <3>3, <4>1, <4>3, OthersHold DEF HoldsDealt, tag
        <5>3. EmptyUnopened(t)'
          BY <3>1, <4>1, <4>3, <5>1 DEF HoldsDealt, EmptyUnopened
        <5>4. QED
          BY <3>1, <3>3, <5>1, <5>2, <5>3 DEF HoldsDealt
      <4>4. QED
        BY <4>2, <4>3
    <3>6. QED
      BY <3>1, <3>5 DEF ContentInv
  <2>4. QED
    BY <2>2, <2>3
<1>7. CASE Close
  BY <1>7, CloseContent DEF Close
<1>8. CASE CloseFails
  <2>1. PICK t \in Tags : errors' = Append(errors, Failed("close", t))
    BY <1>8 DEF CloseFails, CloseWith
  <2>2. Failed("close", t) \in Errors
    BY <1>8, FailedIsError DEF CloseFails
  <2>3. QED
    BY <2>1, <2>2, ErrorContent
<1>9. CASE Return
  <2>1. Dealt' = Dealt
    BY <1>9 DEF Return, Dealt, AtHand
  <2>2. pc = "close" /\ UNCHANGED <<input, at, content, file, errors>>
    BY <1>9 DEF Return
  <2>3. QED
    BY <2>1, <2>2, SameContent
<1>10. CASE UNCHANGED vars
  <2>1. Dealt' = Dealt /\ tag' = tag
    BY <1>10 DEF vars, Dealt, tag
  <2>2. UNCHANGED <<input, at, pc, content, file, errors>>
    BY <1>10 DEF vars
  <2>3. QED
    BY <2>1, <2>2, SameContent
<1>11. QED
  BY <1>1, <1>2, <1>3, <1>4, <1>5, <1>6, <1>7, <1>8, <1>9, <1>10
     DEF Next, Step, Returned

-----------------------------------------------------------------------------
(***************************************************************************)
(* The invariant, and the theorems that need all of it.                    *)
(***************************************************************************)
PipelineInv == TypeOK /\ ErrorInv /\ WritersInv /\ ContentInv

LEMMA Invariance == Spec => []PipelineInv
<1>1. Init => PipelineInv
  BY InitTyped, InitErrors, InitWriters, InitContent DEF PipelineInv
<1>2. PipelineInv /\ [Next]_vars => PipelineInv'
  BY NextTyped, NextErrors, NextWriters, NextContent DEF PipelineInv
<1>3. QED
  BY <1>1, <1>2, PTL DEF Spec

\* Without an error and with the map empty every file that exists is final.
LEMMA AllFinal ==
  ASSUME PipelineInv, pc \in {"close", "done"}, writers = {}, Outcome = Ok,
         NEW t \in Tags
  PROVE  errors = <<>> /\ file[t] \in {"absent", "closed"}
<1>1. populate_result = Ok /\ first_err = Ok
  BY DEF Outcome
<1>2. Failed("open", t).op # Ok.op
  BY DEF Failed, Ok
<1>3. WriterOf(t) /\ file[t] \in {"absent", "created", "open", "closed", "broken"}
  BY DEF PipelineInv, WritersInv, TypeOK
<1>4. file[t] \in {"absent", "closed"}
  BY <1>1, <1>2, <1>3 DEF WriterOf
<1>5. errors = <<>>
  <2>1. SUFFICES ASSUME errors # <<>> PROVE FALSE
    OBVIOUS
  <2>2. errors[1] \in Errors
    BY <2>1 DEF PipelineInv, TypeOK
  <2>3. QED
    BY <2>1, <2>2, ErrorIsNotOk DEF PipelineInv, ErrorInv
<1>6. QED
  BY <1>4, <1>5

(***************************************************************************)
(* An export that returns Ok has written every batch that the batcher      *)
(* yielded to the file of its type, once and in order, and finalized it.   *)
(***************************************************************************)
THEOREM CompleteIfOk == Spec => []OkMeansComplete
<1>1. PipelineInv => OkMeansComplete
  <2> SUFFICES ASSUME PipelineInv, result = <<Ok>>, NEW t \in Tags
               PROVE  /\ HoldsAll(t)
                      /\ file[t] = IF content[t] = <<>> THEN "absent"
                                   ELSE "closed"
    BY DEF OkMeansComplete
  <2>1. pc = "done" /\ Outcome = Ok
    BY DEF PipelineInv, ErrorInv
  <2>2. errors = <<>> /\ file[t] \in {"absent", "closed"}
    BY <2>1, AllFinal DEF PipelineInv, WritersInv
  <2>3. at = Len(input) /\ HoldsDealt(t)
    BY <2>1, <2>2 DEF PipelineInv, ContentInv
  <2>4. Dealt = Len(input) /\ DOMAIN input = 1..Len(input)
    BY <2>1, <2>3 DEF Dealt, AtHand, PipelineInv, TypeOK
  <2>5. HoldsUpTo(content[t], input, Len(input), t)
    BY <2>3, <2>4 DEF HoldsDealt
  <2>6. HoldsAll(t)
    BY <2>4, <2>5 DEF HoldsUpTo, HoldsAll, Increasing
  <2>7. file[t] = IF content[t] = <<>> THEN "absent" ELSE "closed"
    BY <2>1, <2>2, <2>3 DEF HoldsDealt, EmptyUnopened
  <2>8. QED
    BY <2>6, <2>7
<1>2. QED
  BY <1>1, Invariance, PTL

(***************************************************************************)
(* Writers are closed in the order of TypeTag's variants.                  *)
(***************************************************************************)
THEOREM ClosesInOrder == Spec => CloseInOrder
<1>1. [Next]_vars
        => [\A i, j \in DOMAIN TagOrder :
              /\ TagOrder[i] \in writers /\ TagOrder[i] \notin writers'
              /\ TagOrder[j] \in writers'
              => i < j]_vars
  <2> SUFFICES ASSUME Next, NEW i \in DOMAIN TagOrder, NEW j \in DOMAIN TagOrder,
                      TagOrder[i] \in writers, TagOrder[i] \notin writers',
                      TagOrder[j] \in writers'
               PROVE  i < j
    OBVIOUS
  <2>1. Close \/ CloseFails
    BY DEF Next, Step, PullBatch, PullError, PullEnd, writer_factory, open,
           write, CallFails, Return, Returned, vars
  <2>2. PICK t \in Tags : First(t) /\ writers' = writers \ {t}
    BY <2>1 DEF Close, CloseFails, CloseWith
  <2>3. t = TagOrder[i] /\ TagOrder[j] \in writers /\ i # j
    BY <2>2
  <2>4. i <= j
    BY <2>2, <2>3 DEF First
  <2>5. i \in Int /\ j \in Int
    BY PipelineAssumption
  <2>6. QED
    BY <2>3, <2>4, <2>5
<1>2. QED
  BY <1>1, PTL DEF Spec, CloseInOrder

(***************************************************************************)
(* The pipeline implements OutputFiles: whichever callbacks fail, a file   *)
(* is created once, is written to only while it is open, and is never      *)
(* changed after it was finalized; and the result comes last.              *)
(***************************************************************************)
THEOREM ImplementsOutputFiles == Spec => OutputSpec
<1>1. Init => Output!Init
  BY DEF Init, Output!Init
<1>2. PipelineInv /\ [Next]_vars => [Output!Next]_(Output!vars)
  <2> SUFFICES ASSUME PipelineInv, [Next]_vars
               PROVE  Output!Next \/ UNCHANGED <<file, content, result>>
    BY DEF Output!vars
  <2>1. CASE PullBatch \/ PullError \/ PullEnd \/ UNCHANGED vars
    BY <2>1 DEF PullBatch, PullError, PullEnd, vars
  <2>2. CASE writer_factory
    <3>1. CASE CallFails("create")
      BY <3>1 DEF CallFails
    <3>2. CASE ~CallFails("create")
      <4>1. /\ file' = [file EXCEPT ![tag] = "created"]
            /\ content' = [content EXCEPT ![tag] = <<>>]
            /\ pc = "create" /\ UNCHANGED result
        BY <2>2, <3>2 DEF writer_factory
      <4>2. tag \in Tags /\ file[tag] = "absent" /\ result = <<>>
        BY <4>1, BatchAtHand
           DEF PipelineInv, WritersInv, AtHandInv, ErrorInv, AtHand
      <4>3. content[tag] = <<>>
        BY <4>1, <4>2
           DEF PipelineInv, ContentInv, ErrorInv, AtHand, HoldsDealt,
               EmptyUnopened
      <4>4. content' = content
        BY <4>1, <4>2, <4>3 DEF PipelineInv, TypeOK
      <4>5. Output!Create(tag)
        BY <4>1, <4>2, <4>4 DEF Output!Create
      <4>6. QED
        BY <4>2, <4>5 DEF Output!Next
    <3>3. QED
      BY <3>1, <3>2
  <2>3. CASE open
    <3>1. CASE CallFails("open")
      BY <3>1 DEF CallFails
    <3>2. CASE ~CallFails("open")
      <4>1. tag \in Tags /\ file[tag] = "created" /\ result = <<>>
        BY <2>3, BatchAtHand
           DEF open, PipelineInv, WritersInv, AtHandInv, ErrorInv, AtHand
      <4>2. Output!Open(tag)
        BY <2>3, <3>2, <4>1 DEF open, Output!Open
      <4>3. QED
        BY <4>1, <4>2 DEF Output!Next
    <3>3. QED
      BY <3>1, <3>2
  <2>4. CASE write
    <3>1. CASE CallFails("write")
      BY <3>1 DEF CallFails
    <3>2. CASE ~CallFails("write")
      <4>1. tag \in Tags /\ file[tag] = "open" /\ result = <<>>
        BY <2>4, BatchAtHand
           DEF write, PipelineInv, WritersInv, AtHandInv, ErrorInv, AtHand
      <4>2. /\ content' = [content EXCEPT ![tag] = Append(@, at)]
            /\ UNCHANGED <<file, result>>
        BY <2>4, <3>2 DEF write
      <4>3. content[tag] \in Seq(Nat) /\ at \in Nat
        BY <4>1 DEF PipelineInv, TypeOK
      <4>4. content'[tag] = Append(content[tag], at)
        BY <4>1, <4>2 DEF PipelineInv, TypeOK
      <4>5. /\ Len(content'[tag]) = Len(content[tag]) + 1
            /\ \A i \in DOMAIN content[tag] : content'[tag][i] = content[tag][i]
        BY <4>3, <4>4
      <4>6. content' = [content EXCEPT ![tag] = content'[tag]]
        BY <4>2, <4>4
      <4>7. Output!Write(tag)
        BY <4>1, <4>2, <4>5, <4>6 DEF Output!Write
      <4>8. QED
        BY <4>1, <4>7 DEF Output!Next
    <3>3. QED
      BY <3>1, <3>2
  <2>5. ASSUME NEW s \in {"closed", "broken"}, pc = "close", CloseWith(s),
               UNCHANGED <<content, result>>
        PROVE  Output!Next
    <3>1. PICK t \in Tags : First(t) /\ file' = [file EXCEPT ![t] = s]
      BY <2>5 DEF CloseWith
    <3>2. file[t] = "open" /\ result = <<>>
      BY <2>5, <3>1 DEF First, PipelineInv, WritersInv, WriterOf, ErrorInv
    <3>3. Output!Close(t)
      BY <2>5, <3>1, <3>2 DEF Output!Close
    <3>4. QED
      BY <3>3 DEF Output!Next
  <2>6. CASE Close
    BY <2>5, <2>6 DEF Close
  <2>7. CASE CloseFails
    BY <2>5, <2>7 DEF CloseFails
  <2>8. CASE Return
    <3>1. /\ result = <<>> /\ result' = <<Outcome>>
          /\ Outcome \in Errors \cup {Ok}
      BY <2>8 DEF Return, Outcome, PipelineInv, ErrorInv, TypeOK
    <3>2. \A t \in Tags : file[t] # "open"
      BY <2>8 DEF Return, PipelineInv, WritersInv, WriterOf
    <3>3. Outcome = Ok => \A t \in Tags : file[t] \in {"absent", "closed"}
      BY <2>8, AllFinal DEF Return
    <3>4. Output!Finish
      BY <2>8, <3>1, <3>2, <3>3 DEF Return, Output!Finish
    <3>5. QED
      BY <3>4 DEF Output!Next
  <2>9. QED
    BY <2>1, <2>2, <2>3, <2>4, <2>6, <2>7, <2>8 DEF Next, Step, Returned
<1>3. QED
  BY <1>1, <1>2, Invariance, PTL DEF Spec, OutputSpec, Output!Spec
==============================================================================
