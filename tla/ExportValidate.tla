--------------------------- MODULE ExportValidate ---------------------------
(***************************************************************************)
(* The programs around one output directory: any number of exports, by the *)
(* command line tool's "export" or by to_parquet of the Python package,    *)
(* run in parallel with distinct shard ids, that may fail, be killed and   *)
(* be run again, and "validate" processes that compare the directory with  *)
(* the dump while exports may be running.                                  *)
(*                                                                         *)
(* The processes share nothing but the directory.  An export's reader,     *)
(* batcher and writer pipeline are modelled in RdbReader, ArrowBatcher and *)
(* WriterPipeline; here they are reduced to what another process can see:  *)
(* a file appears, without a footer, when the first batch of its type is   *)
(* written, and gets its footer when its writer is closed.                 *)
(***************************************************************************)
EXTENDS Integers, FiniteSets, FiniteSetsExt, SequencesExt

CONSTANTS
  Exporters,    \* the export processes
  Validators,   \* the validate processes
  Scenarios,    \* dump, command lines of the exporters that are used, files
                \* left over, the operations that may fail (open, read,
                \* directory, create, write, close, and kill), and a bound:
                \* how often exports are run again, in all
  TagOrder,     \* TypeTag::ALL
  DefaultCap,   \* DEFAULT_MAX_KEY_ELEMENTS
  None

Tags == {TagOrder[i] : i \in DOMAIN TagOrder}

\* Every type is in TypeTag::ALL once, and geo behind zset.
ASSUME TagAssumption ==
  /\ TagOrder \in Seq(STRING)
  /\ \A i, j \in DOMAIN TagOrder :
       /\ TagOrder[i] = TagOrder[j] => i = j
       /\ TagOrder[i] = "zset" /\ TagOrder[j] = "geo" => i < j

ASSUME ConstantsAssumption ==
  /\ Exporters \cap Validators = {}
  /\ DefaultCap \in Nat \ {0}
  /\ None \notin Nat
  /\ \A heur \in SUBSET {"geo"} : None # heur

(***************************************************************************)
(* A key of the dump: its database, primary type, whether all its members  *)
(* are geohashes, its number of elements, and whether it is a collection   *)
(* that the reader splits.  A key of an unknown type is skipped.           *)
(***************************************************************************)
Keys == [db : Nat, tag : Tags \ {"geo"}, geo : BOOLEAN, size : Nat, plain : BOOLEAN,
         known : BOOLEAN]

\* A dump may have a wrong magic, end before its trailer, or have a wrong
\* checksum in it.
Dumps == [keys : Seq(Keys), damage : {"none", "header", "end", "trailer"}]

Formats == {"parquet", "csv"}

\* What an export is asked for; "usable" if its arguments pass their checks.
CommandLines ==
  [program : {"export", "to_parquet"}, usable : BOOLEAN,
   shard : STRING \cup {None}, format : Formats,
   db : Nat \cup {None}, types : (SUBSET Tags) \cup {None},
   cap : (Nat \ {0}) \cup {None}, heuristics : SUBSET {"geo"}]

\* to_parquet has no arguments for the rest.
to_parquet(a) ==
  /\ a.shard = None /\ a.format = "parquet" /\ a.db = None /\ a.types = None
  /\ a.cap \in {DefaultCap, None}

FileName(tag, shard, format) == <<tag, shard, format>>

(***************************************************************************)
(* A file has a footer once its writer is closed.  Its rows are pairs of a *)
(* key and a position in it; in a file from before they are of key 0,      *)
(* which the dump does not have.                                           *)
(***************************************************************************)
AllRows == Nat \X Nat

Files == [footer : BOOLEAN, rows : Nat, holds : SUBSET AllRows,
          heuristics : SUBSET {"geo"}]

OldFile(f) ==
  /\ f \in Files /\ f.rows > 0
  /\ \A row \in f.holds : row[1] = 0

\* Exports that may run at the same time write to different names.
ASSUME ScenarioAssumption ==
  \A s \in Scenarios :
    /\ s.dump \in Dumps
    /\ s.reruns \in Nat
    /\ IsFiniteSet(DOMAIN s.files)
    /\ \A n \in DOMAIN s.files :
         /\ n \in Tags \X (STRING \cup {None}) \X Formats
         /\ OldFile(s.files[n])
    /\ DOMAIN s.args \subseteq Exporters
    /\ \A e \in DOMAIN s.args :
         /\ s.args[e] \in CommandLines
         /\ s.args[e].program = "to_parquet" => to_parquet(s.args[e])
    /\ \A e, f \in DOMAIN s.args :
         e # f => s.args[e].shard # s.args[f].shard
                  \/ s.args[e].format # s.args[f].format

VARIABLES
  scenario,     \* never changes
  files,        \* the directory: name -> file
  pc, exit,     \* of every process; how it ended, once it is done
  at,           \* exporters: entries pulled from the reader
  builders,     \* exporters: type -> rows of the builder, not yet in a batch
  batch,        \* exporters: the type of the batch at hand
  writers,      \* exporters: the types with an open writer
  failure,      \* exporters: the first error of the pipeline
  cause,        \* history, exporters: the operation that failed first
  reruns,       \* how often exports were run again
  heuristics,   \* validators: ParquetMeta
  rdb,          \* validators: the EntrySummary
  counted,      \* validators: type -> rows found, for the types done so far
  quiet         \* history, validators: since it started no export has run

exportVars == <<at, builders, batch, writers, failure, cause, reruns>>
validateVars == <<heuristics, rdb, counted, quiet>>
vars == <<scenario, files, pc, exit, exportVars, validateVars>>

exporters == DOMAIN scenario.args
Processes == exporters \cup Validators
Faults == scenario.faults
dump == scenario.dump
args(e) == scenario.args[e]

-----------------------------------------------------------------------------
(***************************************************************************)
(* The entries that the reader yields for a dump, splitting collections of *)
(* more than cap elements, and the rows they make.                         *)
(***************************************************************************)
Chunk(i, from, to, total, known) ==
  [key |-> i, from |-> from, to |-> to, total |-> total, known |-> known]

Chunks(i, k, cap) ==
  IF k.plain /\ cap # None /\ k.size > cap
  THEN [j \in 1..((k.size + cap - 1) \div cap) |->
          Chunk(i, (j - 1) * cap, Min({j * cap, k.size}), k.size, k.known)]
  ELSE << Chunk(i, 0, k.size, None, k.known) >>

Entries(d, cap) ==
  FlattenSeq([i \in DOMAIN d.keys |-> Chunks(i, d.keys[i], cap)])

type_tag_for(d, x) == d.keys[x.key].tag

is_geo_entry(d, x) ==
  /\ x.total = None
  /\ d.keys[x.key].tag = "zset" /\ d.keys[x.key].geo /\ d.keys[x.key].size > 0

should_emit_geo(d, x, heur) ==
  "geo" \in heur /\ type_tag_for(d, x) = "zset" /\ is_geo_entry(d, x)

\* The types for which an entry makes rows.
Output(d, x, heur) ==
  {type_tag_for(d, x)} \cup (IF should_emit_geo(d, x, heur) THEN {"geo"} ELSE {})

\* One row per element, and one for an empty collection.
Rows(x) == {<<x.key, j>> : j \in x.from..Max({x.from, x.to - 1})}

expected_row_count(x) == Max({x.to - x.from, 1})

\* Mutant of is_first_chunk: only an entry that is not split counts.
is_first_chunk_WholeOnly(x) == x.total = None

is_first_chunk(x) == x.from = 0

-----------------------------------------------------------------------------
(***************************************************************************)
(* filter.rs: entries that the batcher will make no requested output for   *)
(* do not reach it.                                                        *)
(***************************************************************************)
\* Mutant of matches_any_type: only the primary type is looked at.
matches_any_type_Primary(d, x, a) == type_tag_for(d, x) \in a.types

matches_any_type(d, x, a) ==
  \/ type_tag_for(d, x) \in a.types
  \/ /\ "geo" \in a.heuristics /\ type_tag_for(d, x) = "zset"
     /\ "geo" \in a.types /\ is_geo_entry(d, x)

matches(d, x, a) ==
  /\ a.db # None => d.keys[x.key].db = a.db
  /\ a.types # None => matches_any_type(d, x, a)

-----------------------------------------------------------------------------
NoRows == [tag \in Tags |-> {}]

Init ==
  /\ scenario \in Scenarios
  /\ files = scenario.files
  /\ pc = [p \in Processes |-> "start"]
  /\ exit = [p \in Processes |-> None]
  /\ at = [e \in Exporters |-> 0]
  /\ builders = [e \in Exporters |-> NoRows]
  /\ batch = [e \in Exporters |-> None]
  /\ writers = [e \in Exporters |-> {}]
  /\ failure = [e \in Exporters |-> None]
  /\ cause = [e \in Exporters |-> None]
  /\ reruns = 0
  /\ heuristics = [v \in Validators |-> None]
  /\ rdb = [v \in Validators |-> None]
  /\ counted = [v \in Validators |-> <<>>]
  /\ quiet = [v \in Validators |-> TRUE]

\* How a process ends: the variants of CliError, each with an exit code of its
\* own, and the exceptions of the Python package.
Success == "success"
Other == "Other"
Usage == "Usage"
IoError == "Io"
Corrupt == "Corrupt"
ValidationFailed == "ValidationFailed"
Killed == "killed"
ValueError == "ValueError"
OSError == "OSError"
RuntimeError == "RuntimeError"

Endings == {Success, Other, Usage, IoError, Corrupt, ValidationFailed, Killed,
            ValueError, OSError, RuntimeError}

\* What an export does that can fail, or ends it.
Operations == {"arguments", "open", "header", "directory", "read", "end",
               "trailer", "create", "write", "close", "kill"}

(***************************************************************************)
(* An error starts as one of these and is converted on its way out: an     *)
(* argument, an I/O error, an RdbError with an I/O error inside, another   *)
(* RdbError, an I/O error of the pipeline, another ArrowConvertError.  A   *)
(* RdbError that has passed through the pipeline is converted as if it had *)
(* not.                                                                    *)
(***************************************************************************)
Errors == {"usage", "io", "rdb io", "rdb", "arrow io", "arrow"}

ASSUME NoneAssumption == None \notin Endings \cup Operations \cup Errors

cli_error(error) ==
  CASE error = "usage" -> Usage
    [] error \in {"io", "arrow io"} -> IoError
    [] error \in {"rdb", "rdb io"} -> Corrupt
    [] error = "arrow" -> Other

\* Mutant of py_err: an I/O error inside the parser is a RdbError like others.
py_err_ParserIo(error) ==
  CASE error \in {"usage", "rdb", "rdb io"} -> ValueError
    [] error \in {"io", "arrow io"} -> OSError
    [] error = "arrow" -> RuntimeError

py_err(error) ==
  CASE error \in {"usage", "rdb"} -> ValueError
    [] error \in {"io", "rdb io", "arrow io"} -> OSError
    [] error = "arrow" -> RuntimeError

Ending(e, error) ==
  IF error = None THEN Success
  ELSE IF args(e).program = "export" THEN cli_error(error) ELSE py_err(error)

Goto(p, label) == pc' = [pc EXCEPT ![p] = label] /\ UNCHANGED exit

Terminate(p, code) ==
  /\ pc' = [pc EXCEPT ![p] = "done"]
  /\ exit' = [exit EXCEPT ![p] = code]

\* An export that takes a step disturbs the validators that have started.
Disturb ==
  quiet' = [v \in Validators |-> quiet[v] /\ pc[v] = "start"]

ExportOnly == Disturb /\ UNCHANGED <<scenario, heuristics, rdb, counted>>

Blame(e, op) == cause' = [cause EXCEPT ![e] = IF @ = None THEN op ELSE @]

\* An operation that ends an export before its pipeline runs.
Fail(e, op, error) == Terminate(e, Ending(e, error)) /\ Blame(e, op)

-----------------------------------------------------------------------------
\* What a process that has ended knew is gone.
Forget(e) ==
  /\ at' = [at EXCEPT ![e] = 0]
  /\ builders' = [builders EXCEPT ![e] = NoRows]
  /\ batch' = [batch EXCEPT ![e] = None]
  /\ writers' = [writers EXCEPT ![e] = {}]
  /\ failure' = [failure EXCEPT ![e] = None]

(***************************************************************************)
(* An export: arguments, input, directory.                                 *)
(***************************************************************************)
OpenDump(e) ==
  /\ pc[e] = "start"
  /\ \/ ~args(e).usable /\ Fail(e, "arguments", "usage")
     \/ args(e).usable /\ "open" \in Faults /\ Fail(e, "open", "io")
     \/ args(e).usable /\ dump.damage = "header" /\ Fail(e, "header", "rdb")
     \/ /\ args(e).usable /\ dump.damage # "header"
        /\ Goto(e, "directory") /\ UNCHANGED cause
  /\ ExportOnly
  /\ UNCHANGED <<files, at, builders, batch, writers, failure, reruns>>

CreateDir(e) ==
  /\ pc[e] = "directory"
  /\ \/ "directory" \in Faults /\ Fail(e, "directory", "io")
     \/ Goto(e, "pull") /\ UNCHANGED cause
  /\ ExportOnly
  /\ UNCHANGED <<files, at, builders, batch, writers, failure, reruns>>

(***************************************************************************)
(* The pipeline.  How many rows a batch has is up to the thresholds of the *)
(* batcher: it may emit a batch of any type that has rows, and does so for *)
(* all of them once the reader has ended.  An error drops what is buffered *)
(* and makes the pipeline close its writers.                               *)
(***************************************************************************)
Abort(e, op, error) ==
  /\ failure' = [failure EXCEPT ![e] = error]
  /\ Blame(e, op)
  /\ builders' = [builders EXCEPT ![e] = NoRows]
  /\ batch' = [batch EXCEPT ![e] = None]
  /\ Goto(e, "close")

Input(e) == Entries(dump, args(e).cap)

Pull(e) ==
  /\ pc[e] = "pull" /\ at[e] < Len(Input(e))
  /\ LET x == Input(e)[at[e] + 1]
         rows(tag) == IF x.known /\ matches(dump, x, args(e))
                         /\ tag \in Output(dump, x, args(e).heuristics)
                      THEN Rows(x) ELSE {}
     IN  builders' = [builders EXCEPT ![e] = [tag \in Tags |-> @[tag] \cup rows(tag)]]
  /\ at' = [at EXCEPT ![e] = @ + 1]
  /\ ExportOnly
  /\ UNCHANGED <<files, pc, exit, batch, writers, failure, cause, reruns>>

\* A read that fails is an RdbError with an I/O error inside.
ReadFails(e) ==
  /\ pc[e] = "pull" /\ at[e] < Len(Input(e)) /\ "read" \in Faults
  /\ Abort(e, "read", "rdb io")
  /\ ExportOnly /\ UNCHANGED <<files, at, writers, reruns>>

\* Mutants of PullEnd: a reader that has ended is polled; or it starts over.
PullEnd_Polls(e) ==
  /\ pc[e] = "pull" /\ at[e] >= Len(Input(e)) /\ at[e] < Len(Input(e)) + 3
  /\ at' = [at EXCEPT ![e] = @ + 1]
  /\ ExportOnly
  /\ UNCHANGED <<files, pc, exit, builders, batch, writers, failure, cause, reruns>>

PullEnd_StartsOver(e) ==
  /\ pc[e] = "pull" /\ at[e] = Len(Input(e))
  /\ at' = [at EXCEPT ![e] = 0]
  /\ ExportOnly
  /\ UNCHANGED <<files, pc, exit, builders, batch, writers, failure, cause, reruns>>

\* The reader ends, or finds the input at its end, or the checksum wrong.
PullEnd(e) ==
  /\ pc[e] = "pull" /\ at[e] = Len(Input(e))
  /\ \/ dump.damage = "end" /\ Abort(e, "end", "rdb io") /\ UNCHANGED at
     \/ dump.damage = "trailer" /\ Abort(e, "trailer", "rdb") /\ UNCHANGED at
     \/ /\ dump.damage \notin {"end", "trailer"}
        /\ at' = [at EXCEPT ![e] = @ + 1]
        /\ UNCHANGED <<pc, exit, builders, batch, failure, cause>>
  /\ ExportOnly /\ UNCHANGED <<files, writers, reruns>>

Selects(a, tag) == a.types = None \/ tag \in a.types

\* Only the requested types are written; the batches of others are dropped.
EmitBatch(e, tag) ==
  /\ pc[e] = "pull" /\ builders[e][tag] # {}
  /\ IF Selects(args(e), tag)
     THEN /\ batch' = [batch EXCEPT ![e] = tag]
          /\ Goto(e, IF tag \in writers[e] THEN "write" ELSE "create")
          /\ UNCHANGED builders
     ELSE /\ builders' = [builders EXCEPT ![e][tag] = {}]
          /\ UNCHANGED <<pc, exit, batch>>
  /\ ExportOnly
  /\ UNCHANGED <<files, at, writers, failure, cause, reruns>>

Name(a, tag) == FileName(tag, a.shard, a.format)

NewFile(e) == [footer |-> FALSE, rows |-> 0, holds |-> {},
               heuristics |-> args(e).heuristics]

\* Writes f under a name, whether or not it is there.
Put(name, f) ==
  files' = [n \in DOMAIN files \cup {name} |-> IF n = name THEN f ELSE files[n]]

\* Mutant of CreateFile: a file that is there is appended to.
CreateFile_Appends(e) ==
  /\ pc[e] = "create"
  /\ \/ /\ LET name == Name(args(e), batch[e])
           IN  IF name \in DOMAIN files
               THEN Put(name, [files[name] EXCEPT !.footer = FALSE])
               ELSE Put(name, NewFile(e))
        /\ writers' = [writers EXCEPT ![e] = @ \cup {batch[e]}]
        /\ Goto(e, "write")
        /\ UNCHANGED <<builders, batch, failure, cause>>
     \/ /\ "create" \in Faults /\ Abort(e, "create", "arrow io")
        /\ UNCHANGED <<files, writers>>
  /\ ExportOnly /\ UNCHANGED <<at, reruns>>

\* File::create truncates.
CreateFile(e) ==
  /\ pc[e] = "create"
  /\ \/ /\ Put(Name(args(e), batch[e]), NewFile(e))
        /\ writers' = [writers EXCEPT ![e] = @ \cup {batch[e]}]
        /\ Goto(e, "write")
        /\ UNCHANGED <<builders, batch, failure, cause>>
     \/ /\ "create" \in Faults /\ Abort(e, "create", "arrow io")
        /\ UNCHANGED <<files, writers>>
  /\ ExportOnly /\ UNCHANGED <<at, reruns>>

\* An I/O error of the file comes back from the writer as one of its own.
WriteBatch(e) ==
  /\ pc[e] = "write"
  /\ LET name == Name(args(e), batch[e])
         rows == builders[e][batch[e]]
     IN  \/ /\ Put(name, [files[name] EXCEPT !.rows = @ + Cardinality(rows),
                                             !.holds = @ \cup rows])
            /\ builders' = [builders EXCEPT ![e][batch[e]] = {}]
            /\ batch' = [batch EXCEPT ![e] = None]
            /\ Goto(e, "pull")
            /\ UNCHANGED <<failure, cause>>
         \/ /\ "write" \in Faults /\ Abort(e, "write", "arrow")
            /\ UNCHANGED files
  /\ ExportOnly /\ UNCHANGED <<at, writers, reruns>>

PipelineEnd(e) ==
  /\ pc[e] = "pull" /\ at[e] > Len(Input(e)) /\ builders[e] = NoRows
  /\ Goto(e, "close")
  /\ ExportOnly /\ UNCHANGED <<files, exportVars>>

FirstTag(S) == TagOrder[Min({i \in DOMAIN TagOrder : TagOrder[i] \in S})]

\* close_all, one writer after the other; an error is kept if it is the first.
CloseFile(e) ==
  /\ pc[e] = "close" /\ writers[e] # {}
  /\ LET tag == FirstTag(writers[e])
         name == Name(args(e), tag)
     IN  /\ writers' = [writers EXCEPT ![e] = @ \ {tag}]
         /\ \/ /\ Put(name, [files[name] EXCEPT !.footer = TRUE])
               /\ UNCHANGED <<failure, cause>>
            \/ /\ "close" \in Faults
               /\ failure' = [failure EXCEPT ![e] = IF @ = None THEN "arrow" ELSE @]
               /\ Blame(e, "close")
               /\ UNCHANGED files
  /\ ExportOnly
  /\ UNCHANGED <<pc, exit, at, builders, batch, reruns>>

ExitExport(e) ==
  /\ pc[e] = "close" /\ writers[e] = {}
  /\ Terminate(e, Ending(e, failure[e])) /\ Forget(e)
  /\ ExportOnly /\ UNCHANGED <<files, cause, reruns>>

-----------------------------------------------------------------------------
(***************************************************************************)
(* The environment kills an export and runs a failed one again.            *)
(***************************************************************************)
Kill(e) ==
  /\ "kill" \in Faults /\ pc[e] # "done"
  /\ Terminate(e, Killed) /\ Forget(e)
  /\ cause' = [cause EXCEPT ![e] = "kill"]
  /\ ExportOnly /\ UNCHANGED <<files, reruns>>

RunAgain(e) ==
  /\ pc[e] = "done" /\ exit[e] # Success /\ reruns < scenario.reruns
  /\ reruns' = reruns + 1
  /\ pc' = [pc EXCEPT ![e] = "start"]
  /\ exit' = [exit EXCEPT ![e] = None]
  /\ cause' = [cause EXCEPT ![e] = None]
  /\ ExportOnly
  /\ UNCHANGED <<files, at, builders, batch, writers, failure>>

-----------------------------------------------------------------------------
(***************************************************************************)
(* validate: metadata of one file, then the dump, then every file.         *)
(***************************************************************************)
\* Mutant of find_parquet_files: the base name only.
find_parquet_files_Base(tag) ==
  {n \in DOMAIN files : n[1] = tag /\ n[2] = None /\ n[3] = "parquet"}

find_parquet_files(tag) ==
  {n \in DOMAIN files : n[1] = tag /\ n[3] = "parquet"}

\* The files that read_parquet_metadata may meet first: of the first type that
\* has files, the one without a shard id, or else whichever is listed first.
MetadataFiles ==
  LET some == {tag \in Tags : find_parquet_files(tag) # {}}
      first == find_parquet_files(FirstTag(some))
      base == {n \in first : n[2] = None}
  IN  IF some = {} THEN {} ELSE IF base # {} THEN base ELSE first

Quiet(v) ==
  quiet' = [quiet EXCEPT ![v] = \A e \in exporters : pc[e] = "done"]

ReadMetadata(v) ==
  /\ pc[v] = "start"
  /\ Quiet(v)
  /\ \/ /\ MetadataFiles = {}
        /\ heuristics' = [heuristics EXCEPT ![v] = {"geo"}]
        /\ Goto(v, "rdb")
     \/ \E n \in MetadataFiles :
          IF files[n].footer
          THEN /\ heuristics' = [heuristics EXCEPT ![v] = files[n].heuristics]
               /\ Goto(v, "rdb")
          ELSE Terminate(v, Other) /\ UNCHANGED heuristics
     \/ /\ MetadataFiles # {} /\ "open" \in Faults
        /\ Terminate(v, IoError) /\ UNCHANGED heuristics
  /\ UNCHANGED <<scenario, files, exportVars, rdb, counted>>

(***************************************************************************)
(* summarize_entries over a reader with the default chunking.              *)
(***************************************************************************)
Summary(d, cap, heur) ==
  LET es == Entries(d, cap)
      all == {i \in DOMAIN es : es[i].known}
      of(tag) == {i \in all : tag \in Output(d, es[i], heur)}
      firsts(S) == {i \in S : is_first_chunk(es[i])}
      rows == [i \in DOMAIN es |-> expected_row_count(es[i])]
  IN  [totals |-> [tag \in {t \in Tags : of(t) # {}} |->
                     [keys |-> Cardinality(firsts(of(tag))),
                      rows |-> SumFunctionOnSet(rows, of(tag))]],
       total_keys |-> Cardinality(firsts(all)),
       per_db_keys |-> [db \in {d.keys[es[i].key].db : i \in firsts(all)} |->
                          Cardinality({i \in firsts(all) :
                                         d.keys[es[i].key].db = db})]]

ASSUME SummaryAssumption ==
  \A s \in Scenarios : \A heur \in SUBSET {"geo"} :
    Summary(s.dump, DefaultCap, heur) # None

\* Mutant of count_rdb: the heuristics of the files are not looked at.
count_rdb_AllHeuristics(v) == Summary(dump, DefaultCap, {"geo"})

count_rdb(v) == Summary(dump, DefaultCap, heuristics[v])

CountRdb(v) ==
  /\ pc[v] = "rdb"
  /\ \/ "open" \in Faults /\ Terminate(v, IoError) /\ UNCHANGED rdb
     \/ dump.damage # "none" /\ Terminate(v, Corrupt) /\ UNCHANGED rdb
     \/ dump.damage # "header" /\ "read" \in Faults /\ Terminate(v, Corrupt)
          /\ UNCHANGED rdb
     \/ /\ dump.damage = "none"
        /\ rdb' = [rdb EXCEPT ![v] = count_rdb(v)]
        /\ Goto(v, "count")
  /\ UNCHANGED <<scenario, files, exportVars, heuristics, counted, quiet>>

\* count_parquet, type by type: the rows of all its files, None without files.
CountParquet(v) ==
  /\ pc[v] = "count" /\ Len(counted[v]) < Len(TagOrder)
  /\ LET found == find_parquet_files(TagOrder[Len(counted[v]) + 1])
         rows == [n \in found |-> files[n].rows]
     IN  \/ /\ \A n \in found : files[n].footer
            /\ counted' = [counted EXCEPT ![v] =
                  Append(@, IF found = {} THEN None
                            ELSE SumFunctionOnSet(rows, found))]
            /\ UNCHANGED <<pc, exit>>
         \/ /\ \E n \in found : ~files[n].footer
            /\ Terminate(v, Other) /\ UNCHANGED counted
         \/ /\ found # {} /\ "open" \in Faults
            /\ Terminate(v, IoError) /\ UNCHANGED counted
  /\ UNCHANGED <<scenario, files, exportVars, heuristics, rdb, quiet>>

\* Mutant of TypeMatches: only types that both sides have are compared.
TypeMatches_BothSides(v, i) ==
  LET totals == rdb[v].totals
  IN  \/ counted[v][i] = None \/ TagOrder[i] \notin DOMAIN totals
      \/ counted[v][i] = totals[TagOrder[i]].rows

\* A type matches if its rows do, or if neither side has it.
TypeMatches(v, i) ==
  LET totals == rdb[v].totals
  IN  counted[v][i] = IF TagOrder[i] \in DOMAIN totals
                      THEN totals[TagOrder[i]].rows ELSE None

Verdict(v) ==
  /\ pc[v] = "count" /\ Len(counted[v]) = Len(TagOrder)
  /\ Terminate(v, IF \A i \in DOMAIN TagOrder : TypeMatches(v, i)
                  THEN Success ELSE ValidationFailed)
  /\ UNCHANGED <<scenario, files, exportVars, validateVars>>

-----------------------------------------------------------------------------
ExportStep(e) ==
  \/ OpenDump(e) \/ CreateDir(e)
  \/ Pull(e) \/ ReadFails(e) \/ PullEnd(e)
  \/ \E tag \in Tags : EmitBatch(e, tag)
  \/ CreateFile(e) \/ WriteBatch(e) \/ PipelineEnd(e)
  \/ CloseFile(e) \/ ExitExport(e)

ValidateStep(v) ==
  ReadMetadata(v) \/ CountRdb(v) \/ CountParquet(v) \/ Verdict(v)

Step ==
  (\E e \in exporters : ExportStep(e)) \/ (\E v \in Validators : ValidateStep(v))

AllDone == (\A p \in Processes : pc[p] = "done") /\ UNCHANGED vars

Next ==
  \/ Step
  \/ \E e \in exporters : Kill(e) \/ RunAgain(e)
  \/ AllDone

Spec == Init /\ [][Next]_vars

\* As long as some process can take a step, one does.
FairSpec == Spec /\ WF_vars(Step)

-----------------------------------------------------------------------------
(***************************************************************************)
(* Type invariant: of the directory and of what the processes keep.        *)
(***************************************************************************)
TypeOK ==
  /\ scenario \in Scenarios
  /\ \A n \in DOMAIN files :
       /\ n[1] \in Tags
       /\ files[n].footer \in BOOLEAN /\ files[n].rows \in Nat
       /\ files[n].holds \subseteq AllRows
       /\ files[n].heuristics \subseteq {"geo"}
  /\ \A p \in Processes : pc[p] = "done" <=> exit[p] # None
  /\ reruns \in 0..scenario.reruns
  /\ \A e \in exporters :
       /\ at[e] \in 0..(Len(Input(e)) + 1)
       /\ \A tag \in Tags : builders[e][tag] \subseteq AllRows
       /\ pc[e] \in {"create", "write"} => batch[e] \in Tags
       /\ pc[e] \in {"start", "directory", "done"} => writers[e] = {}
       /\ failure[e] # None => pc[e] = "close" /\ builders[e] = NoRows
  /\ \A v \in Validators :
       /\ pc[v] \in {"rdb", "count"} => heuristics[v] # None
       /\ pc[v] = "count" => rdb[v] # None
       /\ Len(counted[v]) <= Len(TagOrder)

(***************************************************************************)
(* What an unfiltered run would put into the file of a type, restricted to *)
(* the entries and types the command line asks for.                        *)
(***************************************************************************)
Asked(e, tag) ==
  UNION {Rows(x) : x \in
    {Input(e)[i] : i \in {j \in DOMAIN Input(e) :
       LET x == Input(e)[j]
       IN  /\ x.known /\ Selects(args(e), tag)
           /\ args(e).db # None => dump.keys[x.key].db = args(e).db
           /\ tag \in Output(dump, x, args(e).heuristics)}}}

(***************************************************************************)
(* An export that reported success has written, for every type asked for,  *)
(* exactly the rows asked for, once, to a complete file, and its files     *)
(* stay as they are: no other export, whether it runs at the same time,    *)
(* fails, is killed or runs again, touches them, and skipping entries that *)
(* make no output for the types asked for loses nothing (export.rs,        *)
(* filter.rs; "conflict-free parallel writes", args.rs).                   *)
(***************************************************************************)
ExportOkIsComplete ==
  \A e \in exporters : exit[e] = Success =>
    \A tag \in Tags : Asked(e, tag) # {} =>
      LET name == FileName(tag, args(e).shard, args(e).format)
      IN  /\ name \in DOMAIN files
          /\ files[name].footer
          /\ files[name].holds = Asked(e, tag)
          /\ files[name].rows = Cardinality(Asked(e, tag))

\* What the dump holds for a type, replayed the way the exports were made.
InDump(tag, cap, heur) ==
  UNION {Rows(x) : x \in {y \in Range(Entries(dump, cap)) :
                            y.known /\ tag \in Output(dump, y, heur)}}

\* The exports divide the dump up by database, in Parquet, with the same
\* heuristics.
Divided ==
  /\ \A e, f \in exporters : args(e).heuristics = args(f).heuristics
  /\ \A e \in exporters :
       args(e).types = None /\ args(e).format = "parquet"
  /\ \A i \in DOMAIN dump.keys : \E e \in exporters : \A f \in exporters :
       args(f).db \in {None, dump.keys[i].db} <=> f = e

\* validate splits keys at DefaultCap, whatever the exports did.
DefaultChunks == \A e \in exporters : args(e).cap = DefaultCap

SmallChunks == \A e \in exporters : args(e).cap \in 1..DefaultCap

\* A file that was there before and that no export has replaced.
LeftOver == {n \in DOMAIN files :
               n \in DOMAIN scenario.files /\ files[n] = scenario.files[n]}

Validated(v) == pc[v] = "done" /\ quiet[v] /\ exit[v] \in {Success, ValidationFailed}

(***************************************************************************)
(* Validating, once all of them are done, the successful exports of a dump *)
(* that was divided up among them passes exactly if no older file of a     *)
(* type is left in the directory (export.rs, validate.rs, io.rs).          *)
(***************************************************************************)
ValidatesExport ==
  \A v \in Validators :
    Validated(v) /\ Divided /\ DefaultChunks
    /\ (\A e \in exporters : exit[e] = Success)
      => (exit[v] = Success <=> \A n \in LeftOver : n[3] # "parquet")

(***************************************************************************)
(* If validation of a directory that was empty passes, while no export is  *)
(* running, the files hold every row of the dump exactly once, whether or  *)
(* not the exports reported success (validate.rs).  It compares numbers of *)
(* rows, after splitting keys at the default: were an export to split at   *)
(* more, the geo rows of a key that validate does not count could stand in *)
(* for those of keys that a failed export did not write.                   *)
(***************************************************************************)
PassMeansExported ==
  \A v \in Validators :
    Validated(v) /\ exit[v] = Success /\ Divided /\ SmallChunks
    /\ scenario.files = <<>>
      => \A tag \in Tags :
           LET found == {n \in DOMAIN files : n[1] = tag /\ n[3] = "parquet"}
               rows == [n \in found |-> files[n].rows]
               expected == InDump(tag, DefaultCap, heuristics[v])
           IN  /\ UNION {files[n].holds : n \in found} = expected
               /\ SumFunctionOnSet(rows, found) = Cardinality(expected)

(***************************************************************************)
(* The summary counts every key that can be decoded once, however many     *)
(* chunks the reader makes of it, and no key twice for being geo as well   *)
(* (summarize.rs).                                                         *)
(***************************************************************************)
KeysCountedOnce ==
  \A v \in Validators : rdb[v] # None =>
    LET s == rdb[v]
        known == {i \in DOMAIN dump.keys : dump.keys[i].known}
        dbs == {dump.keys[i].db : i \in known}
    IN  /\ s.total_keys = Cardinality(known)
        /\ s.per_db_keys =
             [db \in dbs |-> Cardinality({i \in known : dump.keys[i].db = db})]
        /\ \A tag \in Tags \ {"geo"} :
             Cardinality({i \in known : dump.keys[i].tag = tag}) =
               IF tag \in DOMAIN s.totals THEN s.totals[tag].keys ELSE 0

(***************************************************************************)
(* How an export ends tells what failed first, whichever error types it    *)
(* passed through and whatever failed while writers were closed: success   *)
(* means that nothing failed, corrupt that the input could not be read to  *)
(* its end, I/O that the input could not be opened or the output not be    *)
(* made, ValueError that the arguments or the bytes of the dump were       *)
(* wrong, OSError that a file could not be used or was too short           *)
(* (cli_error.rs, lib.rs of the Python package, close_all).                *)
(***************************************************************************)
ErrorsNameTheirCause ==
  \A e \in exporters : pc[e] = "done" =>
    /\ exit[e] = Success <=> cause[e] = None
    /\ exit[e] = Corrupt => cause[e] \in {"header", "read", "end", "trailer"}
    /\ exit[e] = IoError => cause[e] \in {"open", "directory", "create"}
    /\ exit[e] \in {Usage, Killed} => cause[e] \in {"arguments", "kill"}
    /\ exit[e] \in {Other, RuntimeError} => cause[e] \in {"write", "close"}
    /\ exit[e] = ValueError => cause[e] \in {"arguments", "header", "trailer"}
    /\ exit[e] = OSError =>
         cause[e] \in {"open", "directory", "create", "read", "end"}

\* Every process ends, whatever fails.
Terminates == <>[](\A p \in Processes : pc[p] = "done")

-----------------------------------------------------------------------------
(***************************************************************************)
(* What documents say and the code does not do.                            *)
(***************************************************************************)
\* README.md: "Verify exported Parquet files match the source RDB".
CompleteExportValidates ==
  \A v \in Validators :
    Validated(v) /\ Divided /\ (\A e \in exporters : exit[e] = Success)
    /\ scenario.files = <<>>
      => exit[v] = Success
=============================================================================
