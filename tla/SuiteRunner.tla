---------------------------- MODULE SuiteRunner ----------------------------
(***************************************************************************)
(* run_suite (optima/rag/research/suite.py) over ExperimentStore           *)
(* (research/experiment.py) and the report (research/reporting.py): an     *)
(* ablation plan executed over several sessions, each of which may be cut  *)
(* short, in the middle of storing a run too, or be given --resume.        *)
(*                                                                         *)
(* Of a run the model keeps what the suite looks at: its identity, label,  *)
(* configuration key, whether it succeeded ("ok" and "partial" are treated *)
(* alike by the code) and which of its files are whole.  Identities of     *)
(* executed runs carry the time and two random bytes and are taken to be   *)
(* distinct; a reused run's add a single random byte to its source's.      *)
(***************************************************************************)
EXTENDS Integers, Sequences

CONSTANTS
  Plan,          \* the runs in execution order, a sequence of [label, key]
  Suffixes,      \* values of the random byte of a reused run
  MaxSessions,   \* bound: times run_suite is called
  NoSuffix,      \* an executed run has none
  NoRun          \* no stored run

Positions == DOMAIN Plan
Labels    == {Plan[p].label : p \in Positions}
Keys      == {Plan[p].key : p \in Positions}

ASSUME SequenceAssumption == Len(Plan) \in Nat /\ Positions = 1..Len(Plan)

\* PlanBuilder gives every planned run a label of its own.
ASSUME PlanAssumption == \A p, q \in Positions : Plan[p].label = Plan[q].label => p = q
ASSUME BoundAssumption == MaxSessions \in Nat

VARIABLES
  runs,       \* the directories under runs/
  session,    \* how many sessions have been started
  pc,         \* "running" or "stopped"
  position,   \* in the execution order
  done,       \* labels the resumed session found finished
  executed,   \* executed: what to reuse for a key
  reported,   \* runs of the report of the last session that reached one
  failure     \* why the last session ended before its report

vars == <<runs, session, pc, position, done, executed, reported, failure>>

Ids == [session: 1..MaxSessions, position: Positions, suffix: Suffixes \cup {NoSuffix}]
Runs == [id: Ids, label: Labels, key: Keys, ok: BOOLEAN, from: Ids \cup {NoRun},
         result: {"missing", "torn", "whole"}, perQuery: {"missing", "torn", "whole"}]

ASSUME NoRunAssumption == NoRun \notin Runs /\ NoRun \notin Ids

TypeOK ==
  /\ runs \subseteq Runs
  /\ session \in 0..MaxSessions
  /\ pc \in {"running", "stopped"}
  /\ position \in 1..(Len(Plan) + 1)
  /\ done \subseteq Labels
  /\ executed \in [Keys -> Runs \cup {NoRun}]
  /\ reported \subseteq Runs
  /\ failure \in {"none", "unreadable results", "run exists", "killed"}

Init ==
  /\ runs = {}
  /\ session = 0
  /\ pc = "stopped"
  /\ position = 1
  /\ done = {}
  /\ executed = [k \in Keys |-> NoRun]
  /\ reported = {}
  /\ failure = "none"

-----------------------------------------------------------------------------
(***************************************************************************)
(* The store.                                                              *)
(***************************************************************************)

\* load_runs reads every result.json there is; json.loads raises on a torn one.
Readable == \A r \in runs : r.result # "torn"
Loaded   == {r \in runs : r.result = "whole"}

\* reporting.load_runs also reads the queries of successful runs: a missing
\* file counts as empty, a truncated one raises EOFError.
ReportReadable == Readable /\ \A r \in Loaded : r.ok => r.perQuery # "torn"

Exists(id) == \E r \in runs : r.id = id

\* The store once r's files are written into the directory of its identity,
\* over what is there.
Stored(r) == {s \in runs : s.id # r.id} \cup {r}

\* What an interrupted save_run leaves of a run.
Remains(r) == {[r EXCEPT !.result = "missing", !.perQuery = "missing"],
               [r EXCEPT !.result = "torn", !.perQuery = "missing"],
               [r EXCEPT !.perQuery = "missing"],
               [r EXCEPT !.perQuery = "torn"]}

-----------------------------------------------------------------------------
(***************************************************************************)
(* A session.                                                              *)
(***************************************************************************)

Ends(why) == pc' = "stopped" /\ failure' = why

Start(resume) ==
  /\ pc = "stopped"
  /\ session < MaxSessions
  /\ session' = session + 1
  /\ position' = 1
  /\ executed' = [k \in Keys |-> NoRun]
  /\ IF resume /\ ~Readable
     THEN done' = {} /\ Ends("unreadable results")
     ELSE /\ done' = IF resume THEN {r.label : r \in {s \in Loaded : s.ok}} ELSE {}
          /\ pc' = "running"
          /\ failure' = "none"
  /\ UNCHANGED <<runs, reported>>

AtRun == pc = "running" /\ position \in Positions
Planned == Plan[position]

\* The record of the planned run at position, executed in this session.
Executed(ok) ==
  [id |-> [session |-> session, position |-> position, suffix |-> NoSuffix],
   label |-> Planned.label, key |-> Planned.key, ok |-> ok, from |-> NoRun,
   result |-> "whole", perQuery |-> "whole"]

\* The record it gets when its key has been executed already.
Reused(suffix) ==
  [executed[Planned.key] EXCEPT
     !.id.suffix = suffix, !.label = Planned.label, !.from = executed[Planned.key].id]

Advances == position' = position + 1 /\ UNCHANGED <<session, pc, done, reported, failure>>

\* Mutant: the directory of an identity drawn twice is written again.
ReuseOverwriting(suffix) ==
  /\ AtRun
  /\ executed[Planned.key] # NoRun
  /\ runs' = Stored(Reused(suffix))
  /\ Advances
  /\ UNCHANGED executed

\* The key is looked up before done is; save_run refuses a directory that exists.
Reuse(suffix) ==
  /\ AtRun
  /\ executed[Planned.key] # NoRun
  /\ ~Exists(Reused(suffix).id)
  /\ runs' = Stored(Reused(suffix))
  /\ Advances
  /\ UNCHANGED executed

\* FileExistsError from save_run, outside the try: it ends the session.
ReuseCollides(suffix) ==
  /\ AtRun
  /\ executed[Planned.key] # NoRun
  /\ Exists(Reused(suffix).id)
  /\ Ends("run exists")
  /\ UNCHANGED <<runs, session, position, done, executed, reported>>

ToExecute == AtRun /\ executed[Planned.key] = NoRun

\* The corpus is loaded first, then a finished run skipped.
SkipDone ==
  /\ ToExecute
  /\ Planned.label \in done
  /\ Advances
  /\ UNCHANGED <<runs, executed>>

Succeed ==
  /\ ToExecute
  /\ Planned.label \notin done
  /\ runs' = Stored(Executed(TRUE))
  /\ executed' = [executed EXCEPT ![Planned.key] = Executed(TRUE)]
  /\ Advances

\* Mutants: a failed run leaves no record; it is remembered for its key.
FailUnrecorded ==
  /\ ToExecute
  /\ Advances
  /\ UNCHANGED <<runs, executed>>

FailRemembered ==
  /\ ToExecute
  /\ runs' = Stored(Executed(FALSE))
  /\ executed' = [executed EXCEPT ![Planned.key] = Executed(FALSE)]
  /\ Advances

\* The corpus does not load, whether or not the run is done; or the encoder,
\* the reranker or the pipeline raises.
Fail ==
  /\ ToExecute
  /\ runs' = Stored(Executed(FALSE))
  /\ Advances
  /\ UNCHANGED executed

\* write_suite_reports.
Report ==
  /\ pc = "running"
  /\ position \notin Positions
  /\ IF ReportReadable
     THEN reported' = Loaded /\ Ends("none")
     ELSE Ends("unreadable results") /\ UNCHANGED reported
  /\ UNCHANGED <<runs, session, position, done, executed>>

\* The process ends between two runs, or while it executes one.
Kill ==
  /\ pc = "running"
  /\ Ends("killed")
  /\ UNCHANGED <<runs, session, position, done, executed, reported>>

\* It ends, or the disk is full, while a run is being stored.
KillInSave ==
  /\ AtRun
  /\ \/ /\ executed[Planned.key] # NoRun
        /\ \E s \in Suffixes : /\ ~Exists(Reused(s).id)
                               /\ \E r \in Remains(Reused(s)) : runs' = Stored(r)
     \/ /\ ToExecute
        /\ \E ok \in BOOLEAN : \E r \in Remains(Executed(ok)) :
              /\ ok => Planned.label \notin done
              /\ runs' = Stored(r)
  /\ Ends("killed")
  /\ UNCHANGED <<session, position, done, executed, reported>>

Step ==
  \/ \E suffix \in Suffixes : Reuse(suffix) \/ ReuseCollides(suffix)
  \/ SkipDone
  \/ Succeed
  \/ Fail
  \/ Report

Next ==
  \/ \E resume \in BOOLEAN : Start(resume)
  \/ Step
  \/ Kill
  \/ KillInSave

Spec == Init /\ [][Next]_vars

-----------------------------------------------------------------------------
(***************************************************************************)
(* Properties.                                                             *)
(***************************************************************************)

\* ExperimentStore writes runs "without overwriting": whatever random bytes
\* reused runs draw, over all sessions, a stored run, whole or cut short, stays
\* as it is.
StoredRunsKept == [][runs \subseteq runs']_runs

\* "Re-recorded under each label (flagged reused_from)": the run a reused
\* record names is stored whole, succeeded, was really executed, in the same
\* session and under the same configuration.
ReuseIsFaithful ==
  \A r \in runs : r.from # NoRun =>
    \E s \in runs :
      /\ s.id = r.from
      /\ s.from = NoRun
      /\ s.ok
      /\ s.key = r.key
      /\ s.result = "whole" /\ s.perQuery = "whole"

\* "A broken run ... must be visible": once a report is written, every planned
\* run is in it, executed, reused or failed, in this session or an earlier one.
ReportShowsPlan ==
  pc = "stopped" /\ failure = "none" /\ session > 0 =>
    \A p \in Positions : \E r \in reported : r.label = Plan[p].label

\* "Identical configurations that appear in several groups are executed once",
\* within a session.
ExecutedOnceASession ==
  \A r, s \in runs :
    /\ r.from = NoRun /\ s.from = NoRun
    /\ r.key = s.key
    /\ r.id.session = s.id.session
    /\ r.ok /\ s.ok
    => r.id = s.id
=============================================================================
