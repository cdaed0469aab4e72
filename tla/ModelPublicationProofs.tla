------------------------ MODULE ModelPublicationProofs ------------------------
(***************************************************************************)
(* Proofs about ModelPublication: for any number of processes, requests,   *)
(* invocations and faults, an accepted bundle is never removed, no record  *)
(* claims a publication that did not happen, and the publication           *)
(* implements the register of PublicationRegister.                         *)
(***************************************************************************)
EXTENDS ModelPublication, TLAPS

\* Where an invocation stands before and after it has switched the pointer.
Before == {"repaired", "prepare", "promote", "unpromote", "prepared", "validate", "commit",
           "discard", "remove", "skipped", "failed"}
After == {"mirror", "committed"}

Runs == [status : {"absent", "running", "complete", "failed", "cancelled"}, invocation : Nat,
         publish : {"pending", "completed"}, model : Nat]

Bundles == [Generation -> {"absent", "whole", "damaged"}]

TypeOK ==
    /\ accepted \in Bundles /\ published \in Bundles
    /\ checkpoint \in Runs
    /\ drawn \in 0..MaxGeneration
    /\ history \subseteq 1..drawn
    /\ pc \in [Process -> Before \cup After \cup {"idle", "down", "restore"}]
    /\ gen \in [Process -> 0..drawn]
    /\ aborted \in [Process -> BOOLEAN]
    /\ saved \in [Process -> Runs] /\ run \in [Process -> Runs]
    /\ at \in [Reader -> {"look", "validate", "fetch", "done"}]
    /\ seen \in [Reader -> history \cup {None}]
    /\ answer \in [Reader -> Int]

\* Every name of the directory that stands for a generation stands for one that was
\* accepted: the pointer, also after a loss of power, and the legacy mirrors.
Selected == {pointer, safe, rootLib, rootIndex} \subseteq history \cup {None}

\* What a record says of a publication is true.
Honest(c) ==
    /\ c.model \in history \cup {None}
    /\ c.status = "complete" /\ c.publish = "completed" => c.invocation \in history

Records == Honest(checkpoint) /\ \A p \in Process : Honest(saved[p]) /\ Honest(run[p])

\* An invocation owns its generation: nobody else has drawn it, it is accepted exactly
\* from the switch of the pointer on, and the record knows no more than that.
Owner(p) ==
    /\ pc[p] \in Before => gen[p] \in 1..drawn /\ gen[p] \notin history
    /\ pc[p] \in After => gen[p] \in history
    /\ pc[p] \in Before \cup After => run[p].invocation = gen[p] /\ run[p].publish = "pending"
    /\ pc[p] \in {"down", "restore"} => gen[p] = None
    /\ pc[p] = "idle" /\ gen[p] # None => (run[p].publish = "completed" <=> gen[p] \in history)

Owned ==
    /\ \A p \in Process : Owner(p)
    /\ \A p, q \in Process : gen[p] = gen[q] => p = q \/ gen[p] = None

\* The bundles of an accepted generation are there, and so are those of the invocation
\* that has validated its own and is about to switch the pointer.
Present(g) == accepted[g] # "absent" /\ published[g] # "absent"

Preserved ==
    /\ \A g \in history : Present(g)
    /\ \A p \in Process : pc[p] = "commit" => Present(gen[p])

IInv == TypeOK /\ Selected /\ Records /\ Owned /\ Preserved

-----------------------------------------------------------------------------
(* Each conjunct under the steps that cannot disturb it *)

\* An empty job satisfies the invariant.
LEMMA InitIInv == Init => IInv
<1> SUFFICES ASSUME Init PROVE IInv
  OBVIOUS
<1>1. Fresh \in Runs /\ Honest(Fresh)
  BY DEF Fresh, Record, Runs, Honest, None
<1>2. TypeOK
  BY <1>1, PublicationAssumption DEF Init, TypeOK, Bundles, None
<1>3. Selected /\ Records
  BY <1>1 DEF Init, Selected, Records
<1>4. Owned /\ Preserved
  BY DEF Init, Owned, Owner, Preserved, Before, After
<1> QED
  BY <1>2, <1>3, <1>4 DEF IInv

\* A step of the stage that only goes to another of its awaits preserves it, if it
\* goes to the switch of the pointer only with both bundles there.
LEMMA MoveIInv ==
  ASSUME IInv, NEW p \in Process, pc[p] \in Before,
         NEW l \in Before, Goto(p, l), l = "commit" => Present(gen[p]),
         Kept(p), UNCHANGED <<directory, reader>>
  PROVE  IInv'
<1> USE DEF IInv, Goto, Kept, directory, reader
<1>1. TypeOK'
  BY DEF TypeOK
<1>2. Selected' /\ Records'
  BY DEF Selected, Records, Honest
<1>3. Owned'
  BY DEF Owned, Owner, TypeOK, Before, After
<1>4. Preserved'
  BY DEF Preserved, Present, TypeOK
<1> QED
  BY <1>1, <1>2, <1>3, <1>4

\* The steps that prepare, validate and give up preserve the invariant.
LEMMA PrepareIInv ==
  ASSUME IInv, NEW p \in Process,
         \/ ReadInputs(p) \/ Prepare(p) \/ HashArtifacts(p) \/ ValidatePrepared(p)
         \/ CommitRefused(p) \/ DiscardLook(p)
  PROVE  IInv'
<1>1. \E l \in Before : /\ pc[p] \in Before /\ Goto(p, l) /\ Kept(p) /\ UNCHANGED <<directory, reader>>
                        /\ l = "commit" => Present(gen[p])
  <2>1. CASE ReadInputs(p) \/ Prepare(p) \/ HashArtifacts(p)
    BY <2>1 DEF ReadInputs, Prepare, HashArtifacts, Before
  <2>2. CASE ValidatePrepared(p)
    BY <2>2 DEF ValidatePrepared, Before, Present, Readable, WholeBundle
  <2>3. CASE CommitRefused(p) \/ DiscardLook(p)
    BY <2>3 DEF CommitRefused, DiscardLook, Before
  <2> QED
    BY <2>1, <2>2, <2>3
<1> QED
  BY <1>1, MoveIInv

\* A new invocation draws a generation nobody has.
LEMMA StartIInv ==
  ASSUME IInv, NEW p \in Process, Start(p)
  PROVE  IInv'
<1> USE DEF IInv
<1> DEFINE r == Record("running", drawn + 1, "pending", run[p].model)
<1>1. /\ pc[p] = "idle" /\ drawn < MaxGeneration /\ drawn' = drawn + 1
      /\ pc' = [pc EXCEPT ![p] = "repaired"] /\ gen' = [gen EXCEPT ![p] = drawn + 1]
      /\ run' = [run EXCEPT ![p] = r] /\ checkpoint' = run'[p]
      /\ UNCHANGED <<pointer, safe, accepted, published, rootLib, rootIndex, faults, history,
                     aborted, saved, at, seen, answer>>
  BY DEF Start, Goto, reader
<1>2. r \in Runs /\ Honest(r) /\ r.invocation = drawn + 1 /\ r.publish = "pending"
  BY DEF TypeOK, Runs, Record, Records, Honest
<1>3. drawn \in Nat /\ drawn' \in 0..MaxGeneration /\ 1..drawn \subseteq 1..drawn'
      /\ drawn' \in 1..drawn' /\ drawn' \notin 1..drawn /\ 0..drawn \subseteq 0..drawn'
  BY <1>1, PublicationAssumption DEF TypeOK
<1>4. run'[p] = r /\ \A q \in Process : q # p => run'[q] = run[q]
  BY <1>1 DEF TypeOK
<1> HIDE DEF r
<1>5. TypeOK'
  BY <1>1, <1>2, <1>3, <1>4 DEF TypeOK, Before
<1>6. Selected' /\ Records'
  BY <1>1, <1>2, <1>4 DEF Selected, Records, Honest
<1>7. gen'[p] = drawn' /\ pc'[p] = "repaired"
      /\ \A q \in Process : q # p => gen'[q] = gen[q] /\ pc'[q] = pc[q] /\ gen[q] \in 0..drawn
  BY <1>1 DEF TypeOK
<1>8. history \subseteq 1..drawn
  BY DEF TypeOK
<1>9. Owned'
  <2>1. Owner(p)'
    BY <1>1, <1>2, <1>3, <1>4, <1>7, <1>8 DEF Owner, Before, After
  <2>2. \A q \in Process : q # p => Owner(q)'
    BY <1>1, <1>3, <1>4, <1>7 DEF Owned, Owner, Before, After
  <2>3. \A q \in Process : q # p => gen'[q] # gen'[p]
    BY <1>1, <1>3, <1>7
  <2> QED
    BY <2>1, <2>2, <2>3, <1>7 DEF Owned
<1>10. Preserved'
  BY <1>1, <1>7 DEF Preserved, Present
<1> QED
  BY <1>5, <1>6, <1>9, <1>10

\* The promotions of the bundles and their removal concern a generation that is not
\* accepted and that no other invocation has.
LEMMA BundlesIInv ==
  ASSUME IInv, NEW p \in Process, Promote(p) \/ Unpromote(p) \/ DiscardRemove(p)
  PROVE  IInv'
<1> USE DEF IInv
<1> DEFINE g == gen[p]
<1>1. PICK l \in Before \ {"commit"} : pc' = [pc EXCEPT ![p] = l]
  BY DEF Promote, Unpromote, DiscardRemove, Goto, Before
<1>2. /\ pc[p] \in Before
      /\ accepted' \in {[accepted EXCEPT ![g] = "whole"], [accepted EXCEPT ![g] = "absent"], accepted}
      /\ published' \in {[published EXCEPT ![g] = "whole"], [published EXCEPT ![g] = "absent"], published}
      /\ UNCHANGED <<pointer, safe, rootLib, rootIndex, checkpoint, drawn, history, gen, aborted,
                     saved, run, at, seen, answer>>
  <2>1. CASE Promote(p)
    BY <2>1 DEF Promote, Kept, reader, Before, TypeOK, Bundles
  <2>2. CASE Unpromote(p) \/ DiscardRemove(p)
    BY <2>2 DEF Unpromote, DiscardRemove, RemoveBundles, Kept, reader, Before
  <2> QED
    BY <2>1, <2>2
<1>3. g \in 1..drawn /\ g \notin history /\ g # None
  BY <1>2 DEF Owned, Owner, None
<1>4. \A h \in Generation : h # g => accepted'[h] = accepted[h] /\ published'[h] = published[h]
  BY <1>2 DEF TypeOK, Bundles
<1>5. accepted' \in Bundles /\ published' \in Bundles
  BY <1>2 DEF TypeOK, Bundles
<1> HIDE DEF g
<1>6. TypeOK' /\ Selected' /\ Records'
  BY <1>1, <1>2, <1>5 DEF TypeOK, Selected, Records, Honest
<1>7. Owned'
  BY <1>1, <1>2 DEF Owned, Owner, TypeOK, Before, After
<1>8. Preserved'
  <2>1. history \subseteq Generation /\ \A q \in Process : gen[q] \in Generation \cup {None}
    BY PublicationAssumption DEF TypeOK, Generation, None
  <2>2. \A h \in history : Present(h)'
    BY <1>2, <1>3, <1>4, <2>1 DEF Preserved, Present
  <2>3. ASSUME NEW q \in Process, pc'[q] = "commit" PROVE Present(gen[q])'
    <3>1. q # p /\ pc[q] = "commit"
      BY <1>1, <2>3 DEF TypeOK
    <3>2. gen[q] \in 1..drawn /\ gen[q] # g
      BY <1>3, <3>1 DEF Owned, Owner, Before, g
    <3>3. gen[q] \in Generation
      BY <2>1, <3>2 DEF None
    <3> QED
      BY <1>2, <1>4, <3>1, <3>2, <3>3 DEF Preserved, Present
  <2> QED
    BY <1>2, <2>2, <2>3 DEF Preserved
<1> QED
  BY <1>6, <1>7, <1>8

\* The switch of the pointer accepts the generation, whose bundles are there.
LEMMA CommitIInv ==
  ASSUME IInv, NEW p \in Process, Commit(p)
  PROVE  IInv'
<1> USE DEF IInv
<1> DEFINE r == Record(run[p].status, run[p].invocation, run[p].publish, gen[p])
<1>1. /\ pc[p] = "commit" /\ pointer' = gen[p] /\ safe' \in {safe, gen[p]}
      /\ history' = history \cup {gen[p]}
      /\ run' = [run EXCEPT ![p] = r] /\ checkpoint' \in {checkpoint, run'[p]}
      /\ pc' = [pc EXCEPT ![p] = "mirror"]
      /\ UNCHANGED <<accepted, published, rootLib, rootIndex, drawn, gen, aborted, saved,
                     at, seen, answer>>
  BY DEF Commit, Goto, reader
<1>2. gen[p] \in 1..drawn /\ gen[p] \notin history /\ gen[p] # None
      /\ run[p].invocation = gen[p] /\ run[p].publish = "pending"
  BY <1>1 DEF Owned, Owner, Before, None
<1>3. r \in Runs /\ r.invocation = gen[p] /\ r.publish = "pending" /\ r.model = gen[p]
  BY <1>2 DEF TypeOK, Runs, Record
<1>4. run'[p] = r /\ \A q \in Process : q # p => run'[q] = run[q]
  BY <1>1 DEF TypeOK
<1> HIDE DEF r
<1>5. TypeOK'
  BY <1>1, <1>2, <1>3, <1>4 DEF TypeOK, After
<1>6. Selected'
  BY <1>1 DEF Selected
<1>7. Records'
  <2>1. \A c \in {checkpoint, r} \cup {run[q] : q \in Process} \cup {saved[q] : q \in Process} : Honest(c)'
    BY <1>1, <1>3 DEF Records, Honest
  <2> QED
    BY <1>1, <1>4, <2>1 DEF Records
<1>8. Owned'
  <2>1. Owner(p)'
    BY <1>1, <1>2, <1>3, <1>4 DEF Owner, TypeOK, Before, After
  <2>2. ASSUME NEW q \in Process, q # p PROVE Owner(q)'
    <3>1. gen[q] \in history' <=> gen[q] \in history
      BY <1>1, <1>2, <2>2 DEF Owned
    <3> QED
      BY <1>1, <1>4, <2>2, <3>1 DEF Owned, Owner, TypeOK
  <2> QED
    BY <1>1, <2>1, <2>2 DEF Owned
<1>9. Preserved'
  BY <1>1 DEF Preserved, Present, TypeOK
<1> QED
  BY <1>5, <1>6, <1>7, <1>8, <1>9

\* What follows the switch keeps it: the mirrors and the end of the invocation.
LEMMA EndIInv ==
  ASSUME IInv, NEW p \in Process,
         Mirror(p) \/ FinishCommitted(p) \/ FinishUncommitted(p) \/ Cancel(p)
  PROVE  IInv'
<1> USE DEF IInv, reader
<1>1. CASE Mirror(p)
  <2>1. TypeOK' /\ Records'
    BY <1>1 DEF Mirror, Goto, Kept, TypeOK, Records, Honest, After
  <2>2. Selected'
    BY <1>1 DEF Mirror, Selected, Owned, Owner, After
  <2>3. Owned'
    BY <1>1 DEF Mirror, Goto, Kept, Owned, Owner, TypeOK, Before, After
  <2>4. Preserved'
    BY <1>1 DEF Mirror, Goto, Kept, Preserved, Present, TypeOK
  <2> QED
    BY <2>1, <2>2, <2>3, <2>4
<1>2. CASE FinishCommitted(p) \/ FinishUncommitted(p)
  <2>1. PICK r \in Runs : /\ run' = [run EXCEPT ![p] = r]
                          /\ r.invocation = run[p].invocation /\ r.model = run[p].model
                          /\ \/ pc[p] = "committed" /\ r.publish = "completed"
                             \/ pc[p] \in {"skipped", "failed"} /\ r.publish = run[p].publish
    <3> DEFINE Ended(status, publish) == Record(status, run[p].invocation, publish, run[p].model)
    <3>0. ASSUME NEW status \in {"complete", "failed", "cancelled"}, NEW publish \in {"pending", "completed"}
          PROVE  /\ Ended(status, publish) \in Runs
                 /\ Ended(status, publish).invocation = run[p].invocation
                 /\ Ended(status, publish).model = run[p].model
                 /\ Ended(status, publish).publish = publish
      BY DEF Record, Runs, TypeOK
    <3>1. CASE FinishCommitted(p)
      <4>1. pc[p] = "committed" /\ run' = [run EXCEPT ![p] = Ended("complete", "completed")]
        BY <3>1 DEF FinishCommitted
      <4> QED
        BY <3>0, <4>1
    <3>2. CASE FinishUncommitted(p)
      <4>1. PICK status \in {"complete", "failed", "cancelled"} :
              run' = [run EXCEPT ![p] = Ended(status, run[p].publish)]
        BY <3>2 DEF FinishUncommitted
      <4>2. pc[p] \in {"skipped", "failed"} /\ run[p].publish \in {"pending", "completed"}
        BY <3>2 DEF FinishUncommitted, TypeOK, Runs
      <4> HIDE DEF Ended
      <4> QED
        BY <3>0, <4>1, <4>2
    <3> QED
      BY <1>2, <3>1, <3>2
  <2>2. /\ pc' = [pc EXCEPT ![p] = "idle"] /\ checkpoint' \in {checkpoint, run'[p]}
        /\ aborted' = [aborted EXCEPT ![p] = FALSE]
        /\ UNCHANGED <<pointer, safe, accepted, published, rootLib, rootIndex,
                       drawn, history, gen, saved, at, seen, answer>>
    BY <1>2 DEF FinishCommitted, FinishUncommitted, Goto, Released
  <2>3. run'[p] = r /\ \A q \in Process : q # p => run'[q] = run[q]
    BY <2>1 DEF TypeOK
  <2>4. /\ run[p].invocation = gen[p] /\ run[p].publish = "pending"
        /\ pc[p] = "committed" => gen[p] \in history
        /\ pc[p] # "committed" => gen[p] \notin history
    BY <2>1 DEF Owned, Owner, Before, After
  <2>5. Honest(r)
    BY <2>1, <2>4 DEF Records, Honest
  <2>6. TypeOK' /\ Selected' /\ Records'
    BY <2>1, <2>2, <2>3, <2>5 DEF TypeOK, Selected, Records, Honest
  <2>7. Owned'
    <3>1. Owner(p)'
      BY <2>1, <2>2, <2>3, <2>4 DEF Owner, TypeOK, Before, After
    <3>2. \A q \in Process : q # p => Owner(q)'
      BY <2>2, <2>3 DEF Owned, Owner, TypeOK
    <3> QED
      BY <2>2, <3>1, <3>2 DEF Owned
  <2>8. Preserved'
    BY <2>2 DEF Preserved, Present, TypeOK
  <2> QED
    BY <2>6, <2>7, <2>8
<1>3. CASE Cancel(p)
  <2>1. aborted' \in [Process -> BOOLEAN] /\ UNCHANGED <<directory, pc, gen, saved, run, at, seen, answer>>
    BY <1>3 DEF Cancel, TypeOK
  <2> QED
    BY <2>1 DEF directory, TypeOK, Selected, Records, Honest, Owned, Owner, Preserved, Present
<1> QED
  BY <1>1, <1>2, <1>3

\* A kill, a loss of power and a damaged bundle preserve the invariant: what is
\* forgotten is not in the directory, and a damaged bundle is still there.
LEMMA FaultIInv ==
  ASSUME IInv, (\E p \in Process : Crash(p)) \/ PowerLoss \/ Damage
  PROVE  IInv'
<1> USE DEF IInv, reader
<1>0. Fresh \in Runs /\ Honest(Fresh) /\ Honest(Fresh)'
  BY DEF Fresh, Record, Runs, Honest, None
<1>1. ASSUME NEW p \in Process, Crash(p) PROVE IInv'
  <2>1. /\ pc' = [pc EXCEPT ![p] = "down"] /\ gen' = [gen EXCEPT ![p] = None]
        /\ aborted' = [aborted EXCEPT ![p] = FALSE] /\ saved' = [saved EXCEPT ![p] = Fresh]
        /\ run' = [run EXCEPT ![p] = Fresh]
        /\ UNCHANGED <<pointer, safe, accepted, published, rootLib, rootIndex, checkpoint, drawn,
                       history, at, seen, answer>>
    BY <1>1 DEF Crash, Goto, Forgotten
  <2>2. TypeOK'
    BY <1>0, <2>1 DEF TypeOK, None
  <2>3. Selected' /\ Records'
    BY <1>0, <2>1 DEF Selected, Records, Honest, TypeOK
  <2>4. Owned'
    BY <2>1 DEF Owned, Owner, TypeOK, Before, After
  <2>5. Preserved'
    BY <2>1 DEF Preserved, Present, TypeOK
  <2> QED
    BY <2>2, <2>3, <2>4, <2>5
<1>2. CASE PowerLoss
  <2>1. /\ pc' = [q \in Process |-> "down"] /\ gen' = [q \in Process |-> None]
        /\ aborted' = [q \in Process |-> FALSE] /\ saved' = [q \in Process |-> Fresh]
        /\ run' = [q \in Process |-> Fresh] /\ at' = [r \in Reader |-> "done"]
        /\ pointer' \in {pointer, safe} /\ safe' = pointer'
        /\ UNCHANGED <<accepted, published, rootLib, rootIndex, checkpoint, drawn, history, seen, answer>>
    BY <1>2 DEF PowerLoss
  <2>2. TypeOK'
    BY <1>0, <2>1 DEF TypeOK, None
  <2>3. Selected' /\ Records'
    BY <1>0, <2>1 DEF Selected, Records, Honest, TypeOK
  <2>4. Owned' /\ Preserved'
    BY <2>1 DEF Owned, Owner, Preserved, Present, Before, After
  <2> QED
    BY <2>2, <2>3, <2>4
<1>3. CASE Damage
  <2>1. PICK g \in Generation :
          /\ accepted' \in {accepted, [accepted EXCEPT ![g] = "damaged"]}
          /\ published' \in {published, [published EXCEPT ![g] = "damaged"]}
    BY <1>3 DEF Damage
  <2>2. UNCHANGED <<pointer, safe, rootLib, rootIndex, checkpoint, drawn, history, process, at, seen, answer>>
    BY <1>3 DEF Damage
  <2>3. TypeOK'
    BY <2>1, <2>2 DEF TypeOK, Bundles, process
  <2>4. Selected' /\ Records' /\ Owned'
    BY <2>2 DEF Selected, Records, Honest, Owned, Owner, process
  <2>5. \A h \in Generation : Present(h) => Present(h)'
    BY <2>1 DEF Present, TypeOK, Bundles
  <2>6. history \subseteq Generation /\ \A p \in Process : pc[p] = "commit" => gen[p] \in Generation
    BY PublicationAssumption DEF TypeOK, Generation, Owned, Owner, Before
  <2>7. Preserved'
    BY <2>2, <2>5, <2>6 DEF Preserved, process
  <2> QED
    BY <2>3, <2>4, <2>7
<1> QED
  BY <1>1, <1>2, <1>3

\* What a read of the pointer gives is an accepted generation, nothing, or invalid.
LEMMA ResolveType ==
  ASSUME NEW g \in history \cup {None}
  PROVE  Resolve(g) \in history \cup {None, Invalid} /\ (Resolve(g) # Invalid => Resolve(g) = g)
BY DEF Resolve, None, Invalid

\* A restart makes no record claim more than the checkpoint and the pointer say.
LEMMA RestoredHonest ==
  ASSUME TypeOK, Selected, NEW c \in Runs, Honest(c), NEW pub \in history \cup {None, Invalid}
  PROVE  Restored(c, pub) \in Runs /\ Honest(Restored(c, pub))
<1>1. history \subseteq Nat /\ rootLib \in history \cup {None} /\ Invalid \notin history /\ None \in Nat
  BY DEF TypeOK, Selected, None, Invalid
<1>2. CASE pub = Invalid \/ (pub = None /\ RequiresPointer(c))
  <2>1. Restored(c, pub) = Record("failed", c.invocation, c.publish, None)
    BY <1>2 DEF Restored, IntegrityFailure
  <2> QED
    BY <1>1, <2>1 DEF Record, Runs, Honest
<1>3. CASE ~(pub = Invalid \/ (pub = None /\ RequiresPointer(c)))
  <2> DEFINE known == c.status # "absent"
             matches == pub # None /\ c.invocation = pub
             recovered == pub # None /\ (~known \/ matches \/ c.invocation = None)
             uncommitted == pub # None /\ known /\ c.status = "complete" /\ c.invocation # None /\ ~matches
             partial == c.status = "complete" /\ c.publish # "completed"
             status == IF uncommitted THEN "failed"
                       ELSE IF recovered THEN "complete"
                       ELSE IF c.status \in {"running", "absent"} THEN "failed"
                       ELSE c.status
             model == IF partial THEN None
                      ELSE IF pub # None THEN pub
                      ELSE IF rootLib # None THEN rootLib ELSE c.model
             invocation == IF recovered THEN pub ELSE c.invocation
  <2>1. Restored(c, pub) = Record(status, invocation, c.publish, model)
    BY <1>3 DEF Restored
  <2>2. model \in history \cup {None}
    BY <1>1, <1>3 DEF Honest
  <2>3. invocation \in Nat /\ status \in {"complete", "failed", "cancelled"}
    BY <1>1, <1>3 DEF Runs
  <2>4. status = "complete" /\ c.publish = "completed" => invocation \in history
    BY <1>1, <1>3 DEF Honest
  <2> HIDE DEF status, invocation, model
  <2> QED
    BY <1>1, <2>1, <2>2, <2>3, <2>4 DEF Record, Runs, Honest
<1> QED
  BY <1>2, <1>3

\* The restart preserves the invariant.
LEMMA RestoreIInv ==
  ASSUME IInv, NEW p \in Process, RestoreRead(p) \/ Restore(p)
  PROVE  IInv'
<1> USE DEF IInv, reader, directory
<1>0. Fresh \in Runs /\ Honest(Fresh)
  BY DEF Fresh, Record, Runs, Honest, None
<1>1. CASE RestoreRead(p)
  <2>1. TypeOK' /\ Selected'
    BY <1>1 DEF RestoreRead, Goto, TypeOK, Selected
  <2>2. Records'
    BY <1>1 DEF RestoreRead, Records, Honest, TypeOK
  <2>3. Owned' /\ Preserved'
    BY <1>1 DEF RestoreRead, Goto, Owned, Owner, Preserved, Present, TypeOK, Before, After
  <2> QED
    BY <2>1, <2>2, <2>3
<1>2. CASE Restore(p)
  <2>1. PICK r \in {Fresh, Restored(saved[p], Resolve(pointer))} : run' = [run EXCEPT ![p] = r]
    BY <1>2 DEF Restore
  <2>2. r \in Runs /\ Honest(r)
    <3>1. Resolve(pointer) \in history \cup {None, Invalid}
      BY ResolveType DEF Selected
    <3>2. saved[p] \in Runs /\ Honest(saved[p])
      BY DEF TypeOK, Records
    <3> QED
      BY <1>0, <2>1, <3>1, <3>2, RestoredHonest
  <2>3. /\ pc[p] = "restore" /\ pc' = [pc EXCEPT ![p] = "idle"] /\ saved' = [saved EXCEPT ![p] = Fresh]
        /\ UNCHANGED <<directory, gen, aborted, at, seen, answer>>
    BY <1>2 DEF Restore, Goto
  <2>4. TypeOK' /\ Selected'
    BY <1>0, <2>1, <2>2, <2>3 DEF TypeOK, Selected
  <2>5. Records'
    BY <1>0, <2>1, <2>2, <2>3 DEF Records, Honest, TypeOK
  <2>6. Owned' /\ Preserved'
    BY <2>1, <2>3 DEF Owned, Owner, Preserved, Present, TypeOK, Before, After
  <2> QED
    BY <2>4, <2>5, <2>6
<1> QED
  BY <1>1, <1>2

-----------------------------------------------------------------------------
(* Requests *)

\* What the base of the component is answered with: the base, a refusal, or the mirror
\* of an accepted model.
LEMMA BaseAnswer ==
  ASSUME Selected, NEW allowIndex \in BOOLEAN
  PROVE  /\ BaseSource(allowIndex) \in {Base, Error} \cup history
         /\ ~allowIndex => BaseSource(allowIndex) \in {Base, Error}
BY DEF BaseSource, Selected

\* A request that validates its publication is answered with it when it is fetched;
\* before that only when it saw none, or saw one that does not verify.
LEMMA ValidateAnswer ==
  ASSUME IInv, NEW r \in Reader, Validate(r)
  PROVE  /\ UNCHANGED <<directory, process, seen>>
         /\ \/ at' = [at EXCEPT ![r] = "fetch"] /\ UNCHANGED answer
            \/ /\ at' = [at EXCEPT ![r] = "done"]
               /\ \E a \in {Base, Error} \cup (IF seen[r] = None THEN history ELSE {}) :
                     answer' = [answer EXCEPT ![r] = a]
<1> USE DEF IInv
<1> DEFINE pub == Resolve(seen[r])
<1>1. PICK k \in Kind : IF pub = None THEN \E a \in WithoutPublication(k) : Answered(r, a)
                        ELSE IF pub = Invalid THEN Answered(r, WithInvalidPublication(k))
                        ELSE at' = [at EXCEPT ![r] = "fetch"] /\ UNCHANGED <<seen, answer>>
  BY DEF Validate
<1>2. UNCHANGED <<directory, process>>
  BY DEF Validate
<1>3. seen[r] \in history \cup {None}
  BY DEF TypeOK
<1>4. None # Invalid /\ (pub # Invalid => pub = seen[r])
  BY <1>3, ResolveType DEF None, Invalid
<1> HIDE DEF pub
<1>5. CASE pub = None
  <2>1. PICK a \in WithoutPublication(k) : Answered(r, a)
    BY <1>1, <1>5
  <2>2. a \in {Base, Error} \cup history
    <3>1. CASE k = "model"
      BY <2>1, <3>1 DEF WithoutPublication, Selected
    <3>2. CASE k # "model"
      BY <2>1, <3>2, BaseAnswer DEF WithoutPublication
    <3> QED
      BY <3>1, <3>2
  <2>3. seen[r] = None
    BY <1>4, <1>5
  <2> QED
    BY <1>2, <2>1, <2>2, <2>3 DEF Answered
<1>6. CASE pub = Invalid
  <2>1. WithInvalidPublication(k) \in {Base, Error}
    BY BaseAnswer DEF WithInvalidPublication
  <2>2. Answered(r, WithInvalidPublication(k))
    BY <1>1, <1>4, <1>6
  <2> QED
    BY <1>2, <2>1, <2>2 DEF Answered
<1>7. CASE pub \notin {None, Invalid}
  BY <1>1, <1>2, <1>7
<1> QED
  BY <1>5, <1>6, <1>7

\* A request that fetches is answered with the generation it saw, or refused.
LEMMA FetchAnswer ==
  ASSUME IInv, NEW r \in Reader, Fetch(r)
  PROVE  /\ UNCHANGED <<directory, process, seen>>
         /\ at' = [at EXCEPT ![r] = "done"]
         /\ \E a \in {Base, Error} \cup {seen[r]} : answer' = [answer EXCEPT ![r] = a]
<1> USE DEF IInv
<1>1. PICK k \in Kind : \E a \in {seen[r], WithInvalidPublication(k)} : Answered(r, a)
  BY DEF Fetch
<1>2. WithInvalidPublication(k) \in {Base, Error}
  BY BaseAnswer DEF WithInvalidPublication
<1> QED
  BY <1>1, <1>2 DEF Fetch, Answered

\* Requests change nothing but what they were answered.
LEMMA RequestIInv ==
  ASSUME IInv, NEW r \in Reader, Look(r) \/ Validate(r) \/ Fetch(r)
  PROVE  IInv'
<1> USE DEF IInv
<1>1. UNCHANGED <<directory, process>>
  BY ValidateAnswer, FetchAnswer DEF Look
<1>2. (Selected /\ Records /\ Owned /\ Preserved)'
  BY <1>1 DEF Selected, Records, Honest, Owned, Owner, Preserved, Present, directory, process
<1>3. history \subseteq Int /\ None \in Int /\ Base \in Int /\ Error \in Int
  BY DEF TypeOK, None, Base, Error
<1>4. seen' \in [Reader -> history \cup {None}]
  BY ValidateAnswer, FetchAnswer DEF Look, TypeOK, Selected
<1>5. answer' \in [Reader -> Int]
  <2>1. CASE Look(r)
    BY <2>1 DEF Look, TypeOK
  <2>2. CASE Validate(r)
    BY <2>2, <1>3, ValidateAnswer DEF TypeOK
  <2>3. CASE Fetch(r)
    <3>1. PICK a \in {Base, Error} \cup {seen[r]} : answer' = [answer EXCEPT ![r] = a]
      BY <2>3, FetchAnswer
    <3>2. a \in Int
      BY <1>3 DEF TypeOK
    <3> QED
      BY <3>1, <3>2 DEF TypeOK
  <2> QED
    BY <2>1, <2>2, <2>3
<1>6. at' \in [Reader -> {"look", "validate", "fetch", "done"}]
  BY ValidateAnswer, FetchAnswer DEF Look, TypeOK
<1>7. TypeOK'
  BY <1>1, <1>4, <1>5, <1>6 DEF TypeOK, directory, process
<1> QED
  BY <1>2, <1>7

-----------------------------------------------------------------------------
\* The invariant is inductive.
THEOREM PublicationInductive == Spec => []IInv
<1>1. IInv /\ [Next]_vars => IInv'
  <2> SUFFICES ASSUME IInv, [Next]_vars PROVE IInv'
    OBVIOUS
  <2>1. ASSUME NEW p \in Process, Stage(p) PROVE IInv'
    BY <2>1, StartIInv, PrepareIInv, BundlesIInv, CommitIInv, EndIInv DEF Stage
  <2>2. ASSUME NEW p \in Process, Cancel(p) \/ Crash(p) \/ RestoreRead(p) \/ Restore(p) PROVE IInv'
    BY <2>2, EndIInv, FaultIInv, RestoreIInv
  <2>3. ASSUME NEW r \in Reader, Look(r) \/ Validate(r) \/ Fetch(r) PROVE IInv'
    BY <2>3, RequestIInv
  <2>4. CASE PowerLoss \/ Damage
    BY <2>4, FaultIInv
  <2>5. CASE UNCHANGED vars
    BY <2>5 DEF vars, directory, process, reader, IInv, TypeOK, Selected, Records, Honest,
                Owned,
       Owner, Preserved, Present
  <2> QED
    BY <2>1, <2>2, <2>3, <2>4, <2>5 DEF Next
<1> QED
  BY <1>1, InitIInv, PTL DEF Spec

\* Records, generations and bundles keep their types, and what a request saw was accepted.
THEOREM PublicationTypes == Spec => []TypeOK
<1>1. IInv => TypeOK
  BY DEF IInv
<1> QED
  BY <1>1, PublicationInductive, PTL

\* The bundles of a generation the pointer ever selected are never removed.
THEOREM AcceptedKept == Spec => []AcceptedNeverDeleted
<1>1. IInv => AcceptedNeverDeleted
  BY DEF IInv, Preserved, Present, AcceptedNeverDeleted
<1> QED
  BY <1>1, PublicationInductive, PTL

\* An invocation ends as published exactly when its generation was accepted, and no
\* record shows a model or claims a publication that was not.
THEOREM RecordsHonest == Spec => []RecordsAreHonest
<1>1. IInv => RecordsAreHonest
  BY DEF IInv, Owned, Owner, Records, Honest, RecordsAreHonest
<1> QED
  BY <1>1, PublicationInductive, PTL

\* Every step of the publication is a step of the register or leaves it alone.
LEMMA RegisterStep ==
  ASSUME IInv, [Next]_vars
  PROVE  [Register!Next]_(Register!vars)
<1> USE DEF IInv
<1>1. ASSUME NEW p \in Process, Commit(p) PROVE Register!Accept
  <2>1. gen[p] \in Generation \ history
    BY <1>1, PublicationAssumption DEF Commit, Owned, Owner, TypeOK, Generation, Before
  <2> QED
    BY <1>1, <2>1 DEF Commit, reader, Register!Accept
<1>2. ASSUME NEW p \in Process, Stage(p), ~Commit(p) PROVE UNCHANGED <<pointer, history, seen, answer>>
  <2>1. CASE Start(p) \/ ReadInputs(p) \/ Prepare(p) \/ Promote(p) \/ Unpromote(p) \/ HashArtifacts(p)
    BY <2>1 DEF Start, ReadInputs, Prepare, Promote, Unpromote, HashArtifacts, RemoveBundles,
       directory, reader
  <2>2. CASE ValidatePrepared(p) \/ CommitRefused(p) \/ Mirror(p) \/ DiscardLook(p) \/ DiscardRemove(p)
             \/ FinishCommitted(p) \/ FinishUncommitted(p)
    BY <2>2 DEF ValidatePrepared, CommitRefused, Mirror, DiscardLook, DiscardRemove,
                RemoveBundles,
       FinishCommitted, FinishUncommitted, directory, reader
  <2> QED
    BY <1>2, <2>1, <2>2 DEF Stage
<1>3. ASSUME NEW p \in Process, Cancel(p) \/ Crash(p) \/ RestoreRead(p) \/ Restore(p)
      PROVE  UNCHANGED <<pointer, history, seen, answer>>
  BY <1>3 DEF Cancel, Crash, RestoreRead, Restore, directory, reader
<1>4. ASSUME NEW r \in Reader, Look(r) PROVE Register!Ask
  BY <1>4 DEF Look, directory, Register!Ask
<1>5. ASSUME NEW r \in Reader, Validate(r)
      PROVE  Register!Answer \/ UNCHANGED <<pointer, history, seen, answer>>
  BY <1>5, ValidateAnswer DEF directory, Register!Answer
<1>6. ASSUME NEW r \in Reader, Fetch(r) PROVE Register!Answer
  BY <1>6, FetchAnswer DEF directory, Register!Answer
<1>7. CASE PowerLoss
  BY <1>7 DEF PowerLoss, Selected, Register!Revert, Register!Next
<1>8. CASE Damage \/ UNCHANGED vars
  BY <1>8 DEF Damage, reader, vars, directory, Register!vars
<1> QED
  BY <1>1, <1>2, <1>3, <1>4, <1>5, <1>6, <1>7, <1>8 DEF Next, Register!Next, Register!vars

\* The publication implements the register: acceptance is one step, and every answer is
\* what the request saw, or a refusal.
THEOREM PublicationRefinesRegister == Spec => RefinesRegister
<1>1. Init => Register!Init
  BY DEF Init, Register!Init
<1> QED
  BY <1>1, RegisterStep, PublicationInductive, PTL DEF Spec, RefinesRegister, Register!Spec

=============================================================================
