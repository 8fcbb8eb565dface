------------------------------ MODULE Modules -------------------------------
(***************************************************************************)
(* import (LI_LOAD_MODULE) and the module loader (module.c).  The program  *)
(* is any: a frame may import a name, call a function out of a module it   *)
(* imported, raise, catch and return, at any moment.  A frame stands for   *)
(* the text of one file, whose dirname_ it sees: it is the run of a module *)
(* ("load") or a call of one of its functions ("call").                    *)
(***************************************************************************)
EXTENDS Naturals, FiniteSets, SequencesExt

CONSTANTS
  Text, Lib, MAIN, \* the files: modules in Lanky, shared libraries, and the program's own
  Name,
  Located(_, _),     \* where the file system has a name that the text of a file imports
  STDLIB, NIL,    \* Located gives STDLIB for a module of ip->stdlib and NIL for none at all
  CYCLES,          \* may modules import one another in a circle?
  MaxFrames, MaxRuns

File == Text \cup Lib
ASSUME ModuleAssumption ==
  /\ {MAIN, NIL, STDLIB} \cap File = {} /\ Text \cap Lib = {} /\ MaxFrames \in Nat /\ MaxRuns \in Nat
  /\ \A f \in Text \cup {MAIN}, n \in Name : Located(f, n) \in File \cup {STDLIB, NIL}

VARIABLES
  cache,      \* the table of the interpreter: the value of each full name
  frames,     \* outermost first: [file, kind, run, thrown]; thrown is what only CALL_FUNC looks at
  raising,    \* is interp->error set?
  runs,       \* how often each file was run
  imported,   \* what the imports have pushed: [file, value]
  state       \* "up", "over", or "crashed"
moduleVars == <<cache, frames, raising, runs, imported, state>>

Top == frames[Len(frames)]
Loading == {frames[i].file : i \in {j \in DOMAIN frames : frames[j].kind = "load"}}
Frame(f, kind, run) == [file |-> f, kind |-> kind, run |-> run, thrown |-> FALSE]
Goes == state = "up" /\ ~raising

ModuleInit ==
  /\ cache = [f \in File |-> NIL]
  /\ frames = <<Frame(MAIN, "load", 1)>> /\ raising = FALSE
  /\ runs = [f \in File |-> 0] /\ imported = {}
  /\ state = "up"

\* A mutant: what a text returned is not kept.
md_put_libs(f, v) == [cache EXCEPT ![f] = IF f \in Lib THEN v ELSE @]

\* hst_put at the end of md_load; a NIL in the table is as good as no entry.
md_put(f, v) == [cache EXCEPT ![f] = v]

Push(f, v) == imported' = imported \cup {[file |-> f, value |-> v]}

\* A name of the standard library, before anything else is looked at.
LoadStandard(n) ==
  /\ Goes /\ Located(Top.file, n) = STDLIB
  /\ UNCHANGED moduleVars

\* No such file: md_lookup_module returns NIL, which strcpy reads.
LoadMissing(n) ==
  /\ Goes /\ Located(Top.file, n) = NIL
  /\ state' = "crashed"
  /\ UNCHANGED <<cache, frames, raising, runs, imported>>

LoadCached(n) ==
  LET f == Located(Top.file, n) IN
  /\ Goes /\ f \in File /\ cache[f] # NIL
  /\ Push(f, cache[f])
  /\ UNCHANGED <<cache, frames, raising, runs, state>>

\* dlopen, and its init function, which returns the module.
md_load_lib(n) ==
  LET f == Located(Top.file, n) IN
  /\ Goes /\ f \in Lib /\ cache[f] = NIL /\ runs[f] < MaxRuns
  /\ runs' = [runs EXCEPT ![f] = @ + 1]
  /\ LET v == [file |-> f, run |-> runs[f] + 1] IN cache' = md_put(f, v) /\ Push(f, v)
  /\ UNCHANGED <<frames, raising, state>>

\* The text is parsed, compiled and run in a frame on top of the importer's.
md_load_text_code(n) ==
  LET f == Located(Top.file, n) IN
  /\ Goes /\ f \in Text /\ cache[f] = NIL
  /\ CYCLES \/ f \notin Loading
  /\ Len(frames) < MaxFrames /\ runs[f] < MaxRuns
  /\ runs' = [runs EXCEPT ![f] = @ + 1]
  /\ frames' = Append(frames, Frame(f, "load", runs[f] + 1))
  /\ UNCHANGED <<cache, raising, imported, state>>

\* A function out of a module: its imports are looked up from the module's directory.
CallInto(f) ==
  /\ Goes /\ Len(frames) < MaxFrames
  /\ f \in Text /\ \E v \in imported : v.file = f /\ v.value # NIL
  /\ frames' = Append(frames, Frame(f, "call", 0))
  /\ UNCHANGED <<cache, raising, runs, imported, state>>

\* The frames when CALL_FUNC of the frame below is over, which empties its thrown.
Called == [Front(frames) EXCEPT ![Len(frames) - 1].thrown = FALSE]

\* The same after a call of a native: what an import has left is raised now.
Noticed ==
  /\ Goes /\ Top.thrown
  /\ frames' = [frames EXCEPT ![Len(frames)].thrown = FALSE] /\ raising' = TRUE
  /\ UNCHANGED <<cache, runs, imported, state>>

\* The end of a frame; that of a module's is followed by the end of md_load.
Return ==
  /\ Goes
  /\ IF Top.kind = "call"
     THEN /\ frames' = Called /\ raising' = frames[Len(frames) - 1].thrown
          /\ UNCHANGED <<cache, imported, state>>
     ELSE IF Top.file = MAIN
     THEN frames' = <<>> /\ state' = "over" /\ UNCHANGED <<cache, imported, raising>>
     ELSE LET v == [file |-> Top.file, run |-> Top.run]
          IN  /\ frames' = Front(frames)
              /\ cache' = md_put(Top.file, v) /\ Push(Top.file, v)
              /\ UNCHANGED <<raising, state>>
  /\ UNCHANGED runs

Raise == Goes /\ raising' = TRUE /\ UNCHANGED <<cache, frames, runs, imported, state>>
Catch == state = "up" /\ raising /\ raising' = FALSE /\ UNCHANGED <<cache, frames, runs, imported, state>>

\* No handler in the frame.  A call hands the exception on at once; a module's frame
\* leaves it to the importer, who goes on with nil, and NIL is put into the table.
Escape ==
  /\ state = "up" /\ raising
  /\ IF Len(frames) = 1 THEN frames' = <<>> /\ state' = "over" /\ UNCHANGED <<cache, raising, imported>>
     ELSE /\ IF Top.kind = "load"
             THEN /\ frames' = [Front(frames) EXCEPT ![Len(frames) - 1].thrown = TRUE]
                  /\ cache' = md_put(Top.file, NIL) /\ Push(Top.file, NIL) /\ raising' = FALSE
             ELSE frames' = Called /\ UNCHANGED <<cache, imported, raising>>
          /\ UNCHANGED state
  /\ UNCHANGED runs

ModuleNext ==
  \/ \E n \in Name : \/ LoadStandard(n) \/ LoadMissing(n) \/ LoadCached(n)
                     \/ md_load_lib(n) \/ md_load_text_code(n)
  \/ \E f \in Text : CallInto(f)
  \/ Noticed \/ Return \/ Raise \/ Catch \/ Escape

ModuleSpec == ModuleInit /\ [][ModuleNext]_moduleVars

-----------------------------------------------------------------------------

\* All imports that gave a module gave the same one, by whatever name and from
\* whatever directory, also if the first tries to load it have failed, or it was
\* imported again by what it imported or called itself (module.c: md_load).
OneModule ==
  \A a, b \in imported : a.file = b.file /\ a.value # NIL /\ b.value # NIL => a.value = b.value
=============================================================================
