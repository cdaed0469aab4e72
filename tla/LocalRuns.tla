------------------------------ MODULE LocalRuns ------------------------------
(***************************************************************************)
(* Local runs of one job (src/server/pipeline-local-run, local-runs.ts,    *)
(* local-run-api.ts) and what the browser shows of it (src/web).           *)
(*                                                                         *)
(* A local run executes a pipeline of an existing job, in the server or in *)
(* a command line process with stores of its own; both write the job's     *)
(* checkpoint.  Its summary on disk says "running" and carries a heartbeat *)
(* until the process records a terminal result.  Whoever lists local runs  *)
(* declares a run interrupted whose heartbeat is stale; the server, when   *)
(* it sees that a command line run ended, refreshes its own record of the  *)
(* job from the checkpoint, and the browser follows that record.           *)
(*                                                                         *)
(* Time is the age of each heartbeat.  A process may be late a bounded     *)
(* number of times, or crash.  A revision stands for the job's content.    *)
(***************************************************************************)
EXTENDS Integers, Sequences, FiniteSets

CONSTANTS
    Runs,           \* numbers of the local runs that may be started
    Stale,          \* LOCAL_RUN_HEARTBEAT_STALE_MS, in heartbeat intervals
    MaxLost         \* processes, the server included, that stop, and runs that
                    \* miss a heartbeat though their process is alive

ASSUME LocalAssumption ==
    /\ Stale \in Nat \ {0, 1} /\ MaxLost \in Nat /\ Runs \subseteq Nat \ {0} /\ IsFiniteSet(Runs)

VARIABLES
    up,         \* the server is running
    mode,       \* run -> who executes it
    pc,         \* run -> where its process is
    disk,       \* run -> status in its summary.json
    age,        \* run -> intervals since the heartbeat, while its summary says running
    late,       \* runs whose process once missed its heartbeat
    writes,     \* run -> terminal writes of its summary (its completed_at)
    launched,   \* serverLaunchedRuns
    reading,    \* caller -> the stale run it is about to declare interrupted
    rec,        \* the server's record of the job
    chk,        \* the job's checkpoint
    rev,        \* last revision of the job
    synced,     \* synchronizedCliRuns
    sync,       \* the synchronization in flight: its key, and what it read
    sse,        \* events on the browser's stream; Closed without a stream
    load,       \* responses of the first load in flight
    reply,      \* responses to a cancellation in flight
    view,       \* what the browser shows
    cancelled,  \* the user has asked to cancel
    overtaken,  \* a response arrived after an event that is newer
    crossed,    \* two processes worked on the job at once (Crosses)
    crashes

disks == <<disk, age, late, writes>>
records == <<rec, chk, rev>>
browser == <<sse, load, reply, view, cancelled, overtaken>>
syncs == <<synced, sync>>
localVars == <<up, mode, pc, disks, launched, reading, records, syncs, browser, crossed, crashes>>

NoRun == 0
Callers == {"server", "cli"}
Terminal == {"completed", "failed", "interrupted"}
Nothing == [rev |-> -1, complete |-> TRUE]
Closed == <<Nothing>>
Idle == [key |-> <<NoRun, 0>>, read |-> Nothing]

-----------------------------------------------------------------------------
(* restorePersistedJob: a checkpoint of an active job is restored as       *)
(* interrupted.                                                            *)
Restore(c) == [c EXCEPT !.complete = TRUE]

Faults == crashes + Cardinality(late)
Running(r) == pc[r] = "running"

WriteTerminal(r, status) ==
    /\ disk' = [disk EXCEPT ![r] = status] /\ age' = [age EXCEPT ![r] = 0]
    /\ writes' = [writes EXCEPT ![r] = @ + 1]

(* publish: subscribers are told of every change of the record.  Every     *)
(* event is the whole job, so one that waits may as well be the newest.    *)
Publish(record) == sse' = IF sse = Closed THEN Closed ELSE <<record>>

(* r works on the job while another process does, or a refresh is in       *)
(* flight, or the server's run hides a command line run whose work is not  *)
(* in the record yet: only the latest run is looked at.                    *)
Behind == rec \notin {chk, Restore(chk)}

Crosses(r, who) ==
    crossed' = \/ crossed
               \/ \E q \in Runs \ {r} : Running(q)
               \/ who = "server" /\ (sync # Idle \/ Behind)

(* JobStore.updateJob by the process of r: the checkpoint and then the     *)
(* record of that process's own store.                                     *)
Update(r, who, complete) ==
    LET next == [rev |-> rev + 1, complete |-> complete]
    IN  /\ rev' = rev + 1 /\ chk' = next
        /\ IF who = "server" THEN rec' = next /\ Publish(next)
           ELSE UNCHANGED <<rec, sse>>
        /\ Crosses(r, who)

(* createPipelineJobRun and the first update of the job: the input is      *)
(* retained, the execution is claimed from the store of the process, and   *)
(* the summary and its heartbeat are written.  A refused claim removes the *)
(* directory again and leaves nothing.  Runs are numbered as created.      *)
Free(who) == who = "server" => up /\ ~\E q \in Runs : mode[q] = "server" /\ Running(q)

Claim(r, who) ==
    /\ pc[r] = "idle" /\ Free(who) /\ (\A q \in Runs : q < r => pc[q] # "idle")
    /\ mode' = [mode EXCEPT ![r] = who]
    /\ launched' = IF who = "server" THEN launched \cup {r} ELSE launched

StartRun(r, who) ==
    /\ Claim(r, who)
    /\ pc' = [pc EXCEPT ![r] = "running"]
    /\ disk' = [disk EXCEPT ![r] = "running"]
    /\ Update(r, who, FALSE)
    /\ UNCHANGED <<up, age, late, writes, reading, syncs, load, reply, view, cancelled, overtaken, crashes>>

(* The first update fails: the summary says so *)
StartFails(r, who) ==
    /\ Claim(r, who)
    /\ pc' = [pc EXCEPT ![r] = "ended"]
    /\ WriteTerminal(r, "failed")
    /\ Crosses(r, who)
    /\ UNCHANGED <<up, late, reading, records, syncs, browser, crashes>>

(* refreshHeartbeat rewrites the summary it started with *)
Heartbeat(r) ==
    /\ Running(r) /\ (age[r] > 0 \/ disk[r] # "running")
    /\ disk' = [disk EXCEPT ![r] = "running"] /\ age' = [age EXCEPT ![r] = 0]
    /\ UNCHANGED <<up, mode, pc, late, writes, launched, reading, records, syncs, browser, crossed, crashes>>

(* Mutant: the timer is not stopped before the result is written *)
FinishBeating(r) ==
    /\ Running(r)
    /\ WriteTerminal(r, "running")
    /\ pc' = [pc EXCEPT ![r] = "ended"]
    /\ Update(r, mode[r], TRUE)
    /\ UNCHANGED <<up, mode, late, launched, reading, syncs, load, reply, view, cancelled, overtaken, crashes>>

(* The pipeline returned: the heartbeat stops, the job's record gets the   *)
(* result and the summary its terminal status, whatever the result is.     *)
Finish(r) ==
    /\ Running(r)
    /\ WriteTerminal(r, "completed")
    /\ pc' = [pc EXCEPT ![r] = "ended"]
    /\ Update(r, mode[r], TRUE)
    /\ UNCHANGED <<up, mode, late, launched, reading, syncs, load, reply, view, cancelled, overtaken, crashes>>

(* The pipeline threw, and the failure cannot be checkpointed either *)
FinishFails(r) ==
    /\ Running(r)
    /\ WriteTerminal(r, "failed")
    /\ pc' = [pc EXCEPT ![r] = "ended"]
    /\ UNCHANGED <<up, mode, late, launched, reading, records, syncs, browser, crossed, crashes>>

(* An interval passes: a heartbeat that is due was written, unless its     *)
(* process is late.                                                        *)
Tick ==
    LET missed == {r \in Runs : Running(r) /\ age[r] > 0}
    IN  /\ \E r \in Runs : disk[r] = "running" /\ age[r] < Stale
        /\ missed \cap late = {} /\ crashes + Cardinality(late \cup missed) <= MaxLost
        /\ late' = late \cup missed
        /\ age' = [r \in Runs |-> IF disk[r] = "running" /\ age[r] < Stale THEN age[r] + 1 ELSE age[r]]
        /\ UNCHANGED <<up, mode, pc, disk, writes, launched, reading, records, syncs, browser, crossed, crashes>>

-----------------------------------------------------------------------------
(* Mutant: the server leaves every run it knows to its process *)
NeverExpires(caller) == IF caller = "server" THEN Runs ELSE {}

(* reconcileInterruptedLocalRun: read the summary, then declare the run    *)
(* interrupted.  The server leaves out the runs it launched itself; the    *)
(* command line's "local list" leaves out none.                            *)
Excluded(caller) == IF caller = "server" THEN launched ELSE {}

ReconcileRead(caller, r) ==
    /\ (caller = "server" => up) /\ reading[caller] = NoRun
    /\ disk[r] = "running" /\ age[r] >= Stale /\ r \notin Excluded(caller)
    /\ reading' = [reading EXCEPT ![caller] = r]
    /\ UNCHANGED <<up, mode, pc, disks, launched, records, syncs, browser, crossed, crashes>>

ReconcileWrite(caller) ==
    LET r == reading[caller]
    IN  /\ r # NoRun
        /\ WriteTerminal(r, "interrupted")
        /\ reading' = [reading EXCEPT ![caller] = NoRun]
        /\ UNCHANGED <<up, mode, pc, late, launched, records, syncs, browser, crossed, crashes>>

(* Mutant: a run is synchronized once, whatever it ended as *)
RunKey(r) == <<r, 0>>

(* synchronize: the latest run of the job, or one the user selected, once  *)
(* per terminal status.                                                    *)
Key(r) == <<r, writes[r]>>

SyncRead(r) ==
    /\ up /\ sync = Idle /\ disk[r] \in Terminal /\ r \notin launched /\ Key(r) \notin synced
    /\ sync' = [key |-> Key(r), read |-> Restore(chk)]
    /\ UNCHANGED <<up, mode, pc, disks, launched, reading, records, synced, browser, crossed, crashes>>

(* refreshRestoredJob *)
SyncApply ==
    /\ sync # Idle
    /\ rec' = sync.read /\ Publish(sync.read)
    /\ synced' = synced \cup {sync.key} /\ sync' = Idle
    /\ UNCHANGED <<up, mode, pc, disks, launched, reading, chk, rev, load, reply, view, cancelled, overtaken, crossed, crashes>>

-----------------------------------------------------------------------------
(* use-active-job.ts: selecting the job opens its stream, which begins     *)
(* with a snapshot and connects again by itself, and loads the job; what   *)
(* is loaded only fills an empty view.  The page is open from the start.   *)
Connect ==
    /\ up /\ sse = Closed
    /\ sse' = <<rec>>
    /\ UNCHANGED <<up, mode, pc, disks, launched, reading, records, syncs, load, reply, view, cancelled, overtaken, crossed, crashes>>

Deliver ==
    /\ sse # Closed /\ sse # <<>>
    /\ view' = Head(sse) /\ sse' = Tail(sse)
    /\ UNCHANGED <<up, mode, pc, disks, launched, reading, records, syncs, load, reply, cancelled, overtaken, crossed, crashes>>

(* Mutant: the loaded job replaces what the stream has delivered *)
ReplacingLoad(loaded) == loaded

FirstLoad(loaded) == IF view = Nothing THEN loaded ELSE view

LoadArrives ==
    /\ load # <<>>
    /\ view' = FirstLoad(Head(load)) /\ load' = <<>>
    /\ UNCHANGED <<up, mode, pc, disks, launched, reading, records, syncs, sse, reply, cancelled, overtaken, crossed, crashes>>

(* cancelTask shows the job in the response, whatever it shows by then *)
CancelTask ==
    LET next == [rev |-> rev + 1, complete |-> FALSE]
    IN  /\ up /\ ~cancelled /\ ~rec.complete
        /\ cancelled' = TRUE /\ rev' = rev + 1 /\ chk' = next /\ rec' = next /\ Publish(next)
        /\ reply' = <<next>>
        /\ crossed' = (crossed \/ sync # Idle \/ \E q \in Runs : Running(q) /\ mode[q] = "cli")
        /\ UNCHANGED <<up, mode, pc, disks, launched, reading, syncs, load, view, overtaken, crashes>>

ReplyArrives ==
    /\ reply # <<>>
    /\ view' = Head(reply) /\ reply' = <<>>
    /\ overtaken' = (overtaken \/ (sse = <<>> /\ Head(reply) # rec))
    /\ UNCHANGED <<up, mode, pc, disks, launched, reading, records, syncs, sse, load, cancelled, crossed, crashes>>

-----------------------------------------------------------------------------
CliCrash(r) ==
    /\ Running(r) /\ mode[r] = "cli" /\ Faults < MaxLost
    /\ crashes' = crashes + 1 /\ pc' = [pc EXCEPT ![r] = "dead"]
    /\ UNCHANGED <<up, mode, disks, launched, reading, records, syncs, browser, crossed>>

(* Everything in the server's memory is lost, the requests it was serving  *)
(* with it.                                                                *)
ServerCrash ==
    /\ up /\ Faults < MaxLost
    /\ crashes' = crashes + 1 /\ up' = FALSE
    /\ pc' = [r \in Runs |-> IF mode[r] = "server" /\ Running(r) THEN "dead" ELSE pc[r]]
    /\ reading' = [reading EXCEPT !["server"] = NoRun]
    /\ launched' = {} /\ synced' = {} /\ sync' = Idle /\ sse' = Closed
    /\ UNCHANGED <<mode, disks, records, load, reply, view, cancelled, overtaken, crossed>>

(* restorePersistedJobs: the restored record is checkpointed *)
RestartServer ==
    /\ ~up
    /\ up' = TRUE /\ rec' = Restore(chk) /\ chk' = Restore(chk)
    /\ UNCHANGED <<mode, pc, disks, launched, reading, rev, syncs, browser, crossed, crashes>>

-----------------------------------------------------------------------------
LocalInit ==
    /\ up = TRUE /\ mode = [r \in Runs |-> "none"] /\ pc = [r \in Runs |-> "idle"]
    /\ disk = [r \in Runs |-> "none"] /\ age = [r \in Runs |-> 0] /\ late = {} /\ writes = [r \in Runs |-> 0]
    /\ launched = {} /\ reading = [c \in Callers |-> NoRun]
    /\ rec = [rev |-> 0, complete |-> TRUE] /\ chk = rec /\ rev = 0
    /\ synced = {} /\ sync = Idle
    /\ sse = <<rec>> /\ load = <<rec>> /\ reply = <<>> /\ view = Nothing
    /\ cancelled = FALSE /\ crossed = FALSE /\ overtaken = FALSE /\ crashes = 0

(* The run of the job listed first *)
Latest == {r \in Runs : disk[r] # "none" /\ \A q \in Runs : q > r => disk[q] = "none"}

(* GET /api/local-runs: the browser asks every 1.5 s *)
List ==
    \/ \E r \in Runs : ReconcileRead("server", r)
    \/ ReconcileWrite("server")
    \/ \E r \in Latest : SyncRead(r)
    \/ SyncApply

LocalNext ==
    \/ \E r \in Runs : \/ \E who \in Callers : StartRun(r, who) \/ StartFails(r, who)
                       \/ Heartbeat(r)
                       \/ Finish(r) \/ FinishFails(r) \/ CliCrash(r)
                       \/ ReconcileRead("cli", r) \/ SyncRead(r)
    \/ ReconcileWrite("cli") \/ List \/ Tick
    \/ Connect \/ Deliver \/ LoadArrives \/ CancelTask \/ ReplyArrives
    \/ ServerCrash \/ RestartServer

(* Timers, polls, streams and supervised processes keep going; starting,   *)
(* cancelling, crashing and being late are up to the environment.          *)
Fairness ==
    /\ \A r \in Runs : WF_localVars(Heartbeat(r)) /\ WF_localVars(Finish(r) \/ FinishFails(r))
    /\ WF_localVars(Tick) /\ WF_localVars(List) /\ WF_localVars(ReconcileWrite("cli"))
    /\ WF_localVars(RestartServer) /\ WF_localVars(Connect) /\ WF_localVars(Deliver)
    /\ WF_localVars(LoadArrives) /\ WF_localVars(ReplyArrives)

LocalSpec == LocalInit /\ [][LocalNext]_localVars
FairLocalSpec == LocalSpec /\ Fairness

-----------------------------------------------------------------------------
(* The result a live process recorded is what its summary says from then   *)
(* on, and only a run whose process missed its heartbeat, or is gone, is   *)
(* ever declared interrupted (reconcileInterruptedLocalRun against         *)
(* refreshHeartbeat and the terminal write).                               *)
ResultKept ==
    \A r \in Runs \ late :
        /\ pc[r] = "ended" => disk[r] \in Terminal \ {"interrupted"}
        /\ Running(r) => disk[r] = "running"

(* A run does not stay "running" in the sidebar: its process ends, or, if  *)
(* it stopped, somebody notices, for the runs of a server that crashed as  *)
(* well.                                                                   *)
EveryRunEnds == \A r \in Runs : disk[r] = "running" ~> disk[r] \in Terminal

(* The server's record of the job ends up as the checkpoint on disk, a     *)
(* command line run's work included, and the browser ends up showing that  *)
(* record (synchronize and use-active-job.ts), unless two processes worked *)
(* on the job at once, or the reply to a cancellation came after the event *)
(* of a later change.                                                      *)
Converges == <>[](up /\ (crossed \/ ~Behind) /\ (overtaken \/ view = rec))
==============================================================================
