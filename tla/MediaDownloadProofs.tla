------------------------ MODULE MediaDownloadProofs ------------------------
(***************************************************************************)
(* Theorems about MediaDownload.                                           *)
(***************************************************************************)
EXTENDS MediaDownload, TLAPS

\* TypeOK in parts: the calls and the semaphore with OneDownload, which bounds its counts, and
\* the rest.
CallsOK ==
    /\ calls \in [Calls -> CallType] /\ inflight \in Calls \cup {None}
    /\ active \in 0..MAX_CONCURRENT /\ others \in 0..MAX_CONCURRENT /\ waiting \in 0..MaxWaiting
    /\ OneDownload

ScreensOK == screens \in [Screens -> ScreenType]

PhotoOK ==
    /\ row \in [state : States \cup {"deleted"}, path : BOOLEAN, confirmed : BOOLEAN]
    /\ file \in {"none", "whole", "broken"} /\ tmp \in {"none", "left", "part", "whole", "broken"}
    /\ staged \in {"none", "whole", "altered"}
    /\ item \in States \cup {"absent"}

TmpOK ==
    /\ file # "broken"
    /\ \A c \in Calls : calls[c].pc \in {"promote", "move"} => tmp \in {"whole", "none"}

FlagsOK ==
    /\ blob \in {"kept", "gone"} /\ archived \in BOOLEAN
    /\ draining \in BOOLEAN /\ rerun \in BOOLEAN
    /\ ask \in {"off", "out", "back"}
    /\ recovery \in {"off", "reset", "cleared", "signedIn"}
    /\ teardown \in BOOLEAN /\ lost \in BOOLEAN /\ torn \in BOOLEAN

TasksOK ==
    /\ sweep \in [at : {"off", "list", "files", "probe"}, file : BOOLEAN, tmp : BOOLEAN]
    /\ library \in [at : {"off", "probe"}, saw : BOOLEAN]
    /\ meta \in [at : {"off", "probe", "merge", "done"}, saw : BOOLEAN, snap : States \cup {"absent"}]

BoundsOK == faults \in 0..MaxFaults /\ visits \in 0..MaxVisits

\* TmpOK is what Move needs for the type of file, and more: what is promoted is whole.
StateOK == CallsOK /\ ScreensOK /\ PhotoOK /\ TmpOK /\ FlagsOK /\ TasksOK /\ BoundsOK

LEMMA StateIsTyped == StateOK => TypeOK /\ OneDownload
BY DEF StateOK, CallsOK, ScreensOK, PhotoOK, FlagsOK, TasksOK, BoundsOK, TypeOK

\* The calls that promote a file are left alone, and no other is one of them.
Promotion == {"promote", "move", "persist"}
Undisturbed ==
    \A c \in Calls :
        /\ calls'[c].pc \in Promotion => calls[c].pc \in Promotion
        /\ calls[c].pc \in Promotion => calls'[c].pc = calls[c].pc /\ calls'[c].saw = calls[c].saw

PCs == {"idle", "probing", "joined"} \cup Working

-----------------------------------------------------------------------------
(* What the helpers do to the calls.                                        *)

LEMMA IdleCall ==
    ASSUME NEW c \in Idle
    PROVE  c \in Calls /\ calls[c].pc = "idle"
<1> DEFINE free == {d \in Calls : At(d, "idle")}
<1>1. free # {} /\ c = CHOOSE d \in free : TRUE
  BY DEF Idle
<1>2. c \in free
  BY <1>1
<1> QED  BY <1>2 DEF At

LEMMA GotoPost ==
    ASSUME CallsOK, NEW c \in Calls, NEW pc \in PCs, Goto(c, pc)
    PROVE  /\ calls' \in [Calls -> CallType]
           /\ calls'[c].pc = pc
           /\ \A d \in Calls \ {c} : calls'[d] = calls[d]
           /\ \A d \in Calls : calls'[d].saw = calls[d].saw
BY DEF CallsOK, Goto, CallType, PCs, Working, Holding

\* The calls keep their kind: idle or probing, joined, queued, holding a slot.
LEMMA SameKinds ==
    ASSUME CallsOK, UNCHANGED <<inflight, slots>>, calls' \in [Calls -> CallType],
           \A c \in Calls : /\ calls'[c].pc \in Working <=> calls[c].pc \in Working
                            /\ calls'[c].pc \in Holding <=> calls[c].pc \in Holding
                            /\ calls'[c].pc = "joined" <=> calls[c].pc = "joined"
    PROVE  CallsOK'
BY DEF CallsOK, OneDownload, Joined, At, slots

LEMMA MovesOn ==
    ASSUME CallsOK, NEW c \in Calls, calls[c].pc \in Holding, NEW pc \in Holding, Goto(c, pc),
           UNCHANGED <<inflight, slots>>
    PROVE  CallsOK'
<1>1. pc \in PCs
  BY DEF PCs, Working
<1>2. "joined" \notin Working /\ Holding \subseteq Working
  BY DEF Working, Holding
<1> QED  BY <1>1, <1>2, GotoPost, SameKinds

LEMMA AcquirePost ==
    ASSUME CallsOK, NEW c \in Calls, calls[c].pc \in {"idle", "probing"},
           NEW cs \in [Calls -> CallType],
           \A d \in Calls : cs[d].pc = calls[d].pc /\ cs[d].saw = calls[d].saw,
           NEW call \in CallType, Acquire(c, cs, call)
    PROVE  CallsOK' /\ Undisturbed
<1>1. /\ "joined" \notin Working /\ Holding \subseteq Working
      /\ "queued" \in Working \ Holding /\ "granted" \in Holding
      /\ "idle" \notin Working /\ "probing" \notin Working
      /\ Promotion \cap {"idle", "probing", "joined", "queued", "granted"} = {}
  BY DEF Working, Holding, Promotion
<1>2. c # None /\ MAX_CONCURRENT \in Nat
  BY NamesAssumption, BoundsAssumption
<1>3. CASE inflight # None
  <2>1. UNCHANGED <<inflight, active, others, waiting>>
        /\ calls' = [cs EXCEPT ![c] = [call EXCEPT !.pc = "joined"]]
    BY <1>3 DEF Acquire, AcquireSlot, slots
  <2>2. calls' \in [Calls -> CallType] /\ calls'[c].pc = "joined"
        /\ \A d \in Calls \ {c} : calls'[d].pc = calls[d].pc /\ calls'[d].saw = calls[d].saw
    BY <2>1 DEF CallType
  <2>3. CallsOK'
    BY <1>1, <1>2, <1>3, <2>1, <2>2 DEF CallsOK, OneDownload, Joined, At
  <2> QED  BY <1>1, <2>2, <2>3 DEF Undisturbed
<1>4. CASE inflight = None /\ active < MAX_CONCURRENT
  <2>1. inflight' = c /\ UNCHANGED <<others, waiting>> /\ active' = active + 1
        /\ calls' = [cs EXCEPT ![c] = [call EXCEPT !.pc = "granted"]]
    BY <1>4 DEF Acquire, AcquireSlot, CallsOK
  <2>2. calls' \in [Calls -> CallType] /\ calls'[c].pc = "granted"
        /\ \A d \in Calls \ {c} : calls'[d].pc = calls[d].pc /\ calls'[d].saw = calls[d].saw
    BY <2>1 DEF CallType
  <2>3. \A d \in Calls : calls[d].pc \notin Working
    BY <1>4, NamesAssumption DEF CallsOK, OneDownload
  <2>4. active = others
    BY <1>1, <2>3 DEF CallsOK, OneDownload
  <2>5. CallsOK'
    BY <1>1, <1>2, <1>4, <2>1, <2>2, <2>3, <2>4 DEF CallsOK, OneDownload, Joined, At
  <2> QED  BY <1>1, <2>2, <2>5 DEF Undisturbed
<1>5. CASE inflight = None /\ ~(active < MAX_CONCURRENT)
  <2>1. inflight' = c /\ UNCHANGED <<others, waiting, active>>
        /\ calls' = [cs EXCEPT ![c] = [call EXCEPT !.pc = "queued"]]
    BY <1>5 DEF Acquire, AcquireSlot, CallsOK
  <2>2. calls' \in [Calls -> CallType] /\ calls'[c].pc = "queued"
        /\ \A d \in Calls \ {c} : calls'[d].pc = calls[d].pc /\ calls'[d].saw = calls[d].saw
    BY <2>1 DEF CallType
  <2>3. \A d \in Calls : calls[d].pc \notin Working
    BY <1>5, NamesAssumption DEF CallsOK, OneDownload
  <2>4. CallsOK'
    BY <1>1, <1>2, <1>5, <2>1, <2>2, <2>3 DEF CallsOK, OneDownload, Joined, At
  <2> QED  BY <1>1, <2>2, <2>4 DEF Undisturbed
<1> QED  BY <1>3, <1>4, <1>5

LEMMA BeginPost ==
    ASSUME CallsOK, NEW c \in Calls, calls[c].pc = "idle",
           NEW cs \in [Calls -> CallType],
           \A d \in Calls : cs[d].pc = calls[d].pc /\ cs[d].saw = calls[d].saw,
           NEW by \in Screens \cup {None, "drain", "export"}, Begin(c, cs, by)
    PROVE  CallsOK' /\ Undisturbed
<1> DEFINE call == [NoCall EXCEPT !.by = by]
<1>1. NoCall \in CallType
  BY DEF NoCall, CallType
<1>2. call \in CallType
  BY <1>1 DEF CallType
<1>3. CASE Acquire(c, cs, call)
  BY <1>2, <1>3, AcquirePost
<1>4. CASE UNCHANGED <<inflight, slots>>
           /\ calls' = [cs EXCEPT ![c] = [call EXCEPT !.pc = "probing", !.saw = Deleted \/ file # "none"]]
  <2>1. calls' \in [Calls -> CallType] /\ calls'[c].pc = "probing"
        /\ \A d \in Calls \ {c} : calls'[d].pc = calls[d].pc /\ calls'[d].saw = calls[d].saw
    BY <1>1, <1>4 DEF CallType, Deleted
  <2>2. CallsOK'
    BY <1>4, <2>1, SameKinds DEF Working, Holding
  <2> QED  BY <2>1, <2>2 DEF Undisturbed, Promotion
<1> QED  BY <1>3, <1>4 DEF Begin

\* The call that works is done: it and those that joined it settle, and its slot is free.
LEMMA SettlesPost ==
    ASSUME CallsOK, NEW c \in Calls, calls[c].pc \in Holding, NEW sentinel,
           inflight' = None, Released, Settle(calls, {c} \cup Joined, sentinel)
    PROVE  CallsOK'
<1>1. "joined" \notin Working /\ Holding \subseteq Working /\ "idle" \notin Working
  BY DEF Working, Holding
<1>2. calls' = [d \in Calls |-> IF d \in {c} \cup Joined THEN NoCall ELSE calls[d]]
  BY DEF Settle
<1>3. NoCall \in CallType /\ NoCall.pc = "idle"
  BY DEF NoCall, CallType
<1>4. calls' \in [Calls -> CallType]
  BY <1>2, <1>3 DEF CallsOK
<1>5. \A d \in Calls : calls'[d].pc \notin Working /\ calls'[d].pc # "joined"
  BY <1>1, <1>2, <1>3 DEF CallsOK, OneDownload, Joined, At
<1>6. active = others + 1 /\ active \in Nat /\ others \in Nat /\ waiting \in Nat
  BY DEF CallsOK, OneDownload
<1>7. /\ active' = others' /\ active' \in 0..MAX_CONCURRENT /\ others' \in 0..MAX_CONCURRENT
      /\ waiting' \in 0..MaxWaiting
  BY <1>6, BoundsAssumption DEF Released, CallsOK
<1>8. OneDownload'
  <2>1. \A d \in Calls : calls'[d].pc \in Working <=> inflight' = d
    BY <1>5, NamesAssumption
  <2>2. Joined' = {} /\ ~\E d \in Calls : calls'[d].pc \in Holding
    BY <1>1, <1>5 DEF Joined, At
  <2>3. active' = others' /\ active' <= MAX_CONCURRENT
    BY <1>7
  <2>4. (IF \E d \in Calls : calls'[d].pc \in Holding THEN 1 ELSE 0) = 0
    BY <2>2
  <2>5. others' \in Nat
    BY <1>7
  <2>6. active' = others' + 0
    <3>1. \A n \in Nat : n = n + 0
      OBVIOUS
    <3> QED  BY <1>7, <2>5, <3>1, Zenon
  <2> QED  BY <2>1, <2>2, <2>3, <2>4, <2>6 DEF OneDownload
<1> QED  BY <1>4, <1>7, <1>8 DEF CallsOK

LEMMA AbortPost ==
    ASSUME CallsOK, NEW c \in Calls \cup {None}
    PROVE  /\ Abort(c) \in [Calls -> CallType]
           /\ \A d \in Calls : Abort(c)[d].pc = calls[d].pc /\ Abort(c)[d].saw = calls[d].saw
BY DEF CallsOK, Abort, CallType

-----------------------------------------------------------------------------
(* Every step keeps CallsOK: by groups of steps that treat the calls alike. *)

\* The steps of the call that works, up to its end.
LEMMA WorkSteps ==
    ASSUME CallsOK, NEW c \in Calls,
           \/ Start(c) \/ Received(c) \/ ReceivedAltered(c) \/ NotReceived(c) \/ Interrupted(c)
           \/ Verify(c) \/ Decrypt(c) \/ Promote(c) \/ Move(c) \/ MoveFails(c)
    PROVE  CallsOK'
<1>1. CASE Promote(c)
  <2>1. /\ calls' = [calls EXCEPT ![c].pc = "move", ![c].saw = file # "none"]
        /\ UNCHANGED <<inflight, slots>> /\ calls[c].pc = "promote"
    BY <1>1 DEF Promote, At
  <2>2. PICK saw \in BOOLEAN : saw = (file # "none")
    OBVIOUS
  <2>3. calls' = [calls EXCEPT ![c].pc = "move", ![c].saw = saw]
    BY <2>1, <2>2
  <2>4. calls' \in [Calls -> CallType] /\ calls'[c].pc = "move"
        /\ \A d \in Calls \ {c} : calls'[d] = calls[d]
    BY <2>3 DEF CallsOK, CallType
  <2> QED  BY <2>1, <2>4, SameKinds DEF Working, Holding
<1>2. CASE ~Promote(c)
  <2>1. calls[c].pc \in Holding /\ UNCHANGED <<inflight, slots>>
    BY <1>2 DEF Start, Received, ReceivedAltered, NotReceived, Interrupted, Verify, Decrypt, Move,
                MoveFails, At, Holding
  <2>2. \E pc \in Holding : Goto(c, pc)
    BY <1>2 DEF Start, Received, ReceivedAltered, NotReceived, Interrupted, Verify, Decrypt, Move,
                MoveFails, Fail, Holding
  <2> QED  BY <2>1, <2>2, MovesOn
<1> QED  BY <1>1, <1>2

LEMMA ProbedCalls ==
    ASSUME CallsOK, NEW c \in Calls, Probed(c)
    PROVE  CallsOK' /\ Undisturbed
<1>1. calls[c].pc = "probing"
  BY DEF Probed
<1>2. CASE Resumed(c)
  <2>1. calls \in [Calls -> CallType] /\ calls[c] \in CallType
    BY DEF CallsOK
  <2> QED  BY <1>1, <1>2, <2>1, AcquirePost DEF Resumed
<1>3. CASE Settle(calls, {c}, FALSE) /\ UNCHANGED <<inflight, slots>>
  <2>1. calls' = [d \in Calls |-> IF d = c THEN NoCall ELSE calls[d]]
    BY <1>3 DEF Settle
  <2>2. NoCall \in CallType /\ NoCall.pc = "idle"
    BY DEF NoCall, CallType
  <2>3. CallsOK'
    BY <1>1, <1>3, <2>1, <2>2, SameKinds DEF CallsOK, Working, Holding
  <2> QED  BY <1>1, <2>1, <2>2, <2>3 DEF Undisturbed, Promotion
<1> QED  BY <1>2, <1>3 DEF Probed

LEMMA EndCalls ==
    ASSUME CallsOK, NEW c \in Calls, Persist(c) \/ Cleanup(c)
    PROVE  CallsOK'
BY SettlesPost DEF Persist, Cleanup, At, Holding

\* A view's effect begins a call, or leaves the calls alone.
LEMMA EffectCalls ==
    ASSUME CallsOK, NEW s \in Screens, NEW view, Effect(s, view)
    PROVE  CallsOK' /\ Undisturbed
<1>1. CASE UNCHANGED <<calls, inflight, slots>>
  BY <1>1, SameKinds DEF CallsOK, Undisturbed
<1>2. CASE \E c \in Idle : Begin(c, calls, s)
  BY <1>2, IdleCall, BeginPost DEF CallsOK
<1> QED  BY <1>1, <1>2 DEF Effect

LEMMA RetryCalls ==
    ASSUME CallsOK, ScreensOK, NEW s \in Screens, Retry(s)
    PROVE  CallsOK' /\ Undisturbed
<1>1. screens[s].ref \in Calls \cup {None}
  BY DEF ScreensOK, ScreenType
<1>2. PICK c \in Idle : Begin(c, Abort(screens[s].ref), None)
  BY DEF Retry
<1>3. c \in Calls /\ calls[c].pc = "idle"
  BY <1>2, IdleCall
<1> QED  BY <1>1, <1>2, <1>3, AbortPost, BeginPost

LEMMA UnmountPcs ==
    ASSUME CallsOK, ScreensOK, NEW s \in Screens, Unmount(s)
    PROVE  /\ UNCHANGED <<inflight, slots>> /\ calls' \in [Calls -> CallType]
           /\ \A d \in Calls : calls'[d].pc = calls[d].pc /\ calls'[d].saw = calls[d].saw
<1> DEFINE aborted == IF s \in Cancels THEN Abort(screens[s].ref) ELSE calls
<1>1. screens[s].ref \in Calls \cup {None}
  BY DEF ScreensOK, ScreenType
<1>2. /\ aborted \in [Calls -> CallType]
      /\ \A d \in Calls : aborted[d].pc = calls[d].pc /\ aborted[d].saw = calls[d].saw
  BY <1>1, AbortPost DEF CallsOK
<1>3. calls' = [d \in Calls |->
                  IF aborted[d].by = s THEN [aborted[d] EXCEPT !.by = None] ELSE aborted[d]]
      /\ UNCHANGED <<inflight, slots>>
  BY DEF Unmount
<1>4. /\ calls' \in [Calls -> CallType]
      /\ \A d \in Calls : calls'[d].pc = calls[d].pc /\ calls'[d].saw = calls[d].saw
  <2> HIDE DEF aborted
  <2> QED  BY <1>2, <1>3 DEF CallType
<1> QED  BY <1>3, <1>4

LEMMA UnmountCalls ==
    ASSUME CallsOK, ScreensOK, NEW s \in Screens, Unmount(s)
    PROVE  CallsOK' /\ Undisturbed
BY UnmountPcs, SameKinds DEF Undisturbed

\* A batch of the drain, an export.
LEMMA StartedCalls ==
    ASSUME CallsOK, Export \/ DrainStarts \/ DrainEnds
    PROVE  CallsOK' /\ Undisturbed
<1>1. CASE UNCHANGED <<calls, inflight, slots>>
  BY <1>1, SameKinds DEF CallsOK, Undisturbed
<1>2. CASE \E c \in Idle : Begin(c, calls, "drain") \/ Begin(c, calls, "export")
  BY <1>2, IdleCall, BeginPost DEF CallsOK
<1> QED  BY <1>1, <1>2 DEF Export, DrainStarts, DrainEnds, TakeBatch

LEMMA ExportCancelledCalls ==
    ASSUME CallsOK, NEW c \in Calls, ExportCancelled(c)
    PROVE  CallsOK' /\ Undisturbed
BY AbortPost, SameKinds DEF ExportCancelled, Undisturbed

\* Other media's downloads take slots, queue for them and give them back.
LEMMA OtherCalls ==
    ASSUME CallsOK, OtherStarts \/ OtherQueues \/ OtherEnds
    PROVE  CallsOK' /\ Undisturbed
<1> DEFINE held == IF \E c \in Calls : calls[c].pc \in Holding THEN 1 ELSE 0
<1>1. /\ active = others + held /\ held \in {0, 1} /\ MAX_CONCURRENT \in Nat /\ MaxWaiting \in Nat
      /\ active \in 0..MAX_CONCURRENT /\ others \in 0..MAX_CONCURRENT /\ waiting \in 0..MaxWaiting
  BY BoundsAssumption DEF CallsOK, OneDownload
<1>2. CASE UNCHANGED <<calls, inflight>> /\ active' \in 0..MAX_CONCURRENT
           /\ others' \in 0..MAX_CONCURRENT /\ waiting' \in 0..MaxWaiting /\ active' = others' + held
  <2>1. held' = held
    BY <1>2
  <2>2. active' = others' + held'
    BY <1>2, <2>1, Zenon
  <2>3. active' <= MAX_CONCURRENT
    <3>1. \A n \in 0..MAX_CONCURRENT : n <= MAX_CONCURRENT
      OBVIOUS
    <3> QED  BY <1>2, <3>1, Zenon
  <2>4. OneDownload'
    BY <1>2, <2>2, <2>3 DEF CallsOK, OneDownload, Joined, At
  <2> QED  BY <1>2, <2>4 DEF CallsOK, Undisturbed
<1>3. CASE OtherStarts \/ OtherQueues
  <2> HIDE DEF held
  <2> QED  BY <1>1, <1>2, <1>3 DEF OtherStarts, OtherQueues
<1>4. CASE OtherEnds /\ ~(waiting = 0 /\ Queued)
  <2> HIDE DEF held
  <2> QED  BY <1>1, <1>2, <1>4 DEF OtherEnds
<1>5. CASE OtherEnds /\ waiting = 0 /\ Queued
  <2>1. PICK c \in Calls : calls[c].pc = "queued"
    BY <1>5 DEF Queued
  <2>2. inflight = c /\ \A d \in Calls \ {c} : calls[d].pc \notin Working
    BY <2>1, NamesAssumption DEF CallsOK, OneDownload, Working
  <2>3. Holding \subseteq Working /\ "queued" \notin Holding /\ "queued" \in Working
        /\ "granted" \in Holding /\ "joined" \notin Working
    BY DEF Working, Holding
  <2>4. active = others /\ others \in Nat
    BY <2>1, <2>2, <2>3, <1>1 DEF CallsOK, OneDownload
  <2>5. /\ others' = others - 1 /\ UNCHANGED <<inflight, active, waiting>> /\ others > 0
        /\ calls' = [d \in Calls |->
              IF calls[d].pc = "queued" THEN [calls[d] EXCEPT !.pc = "granted"] ELSE calls[d]]
    BY <1>1, <1>5 DEF OtherEnds
  <2>6. calls' \in [Calls -> CallType] /\ calls'[c].pc = "granted"
        /\ \A d \in Calls \ {c} : calls'[d] = calls[d]
    BY <2>1, <2>2, <2>3, <2>5 DEF CallsOK, CallType
  <2>7. active' = others' + 1 /\ others' \in 0..MAX_CONCURRENT
    BY <2>4, <2>5, <1>1
  <2>8. OneDownload'
    BY <2>2, <2>3, <2>5, <2>6, <2>7, NamesAssumption DEF CallsOK, OneDownload, Joined, At
  <2>9. CallsOK'
    BY <2>5, <2>6, <2>7, <2>8 DEF CallsOK
  <2> QED  BY <2>1, <2>6, <2>9 DEF Undisturbed, Promotion
<1> QED  BY <1>3, <1>4, <1>5

LEMMA LaunchCalls ==
    ASSUME Launch
    PROVE  CallsOK'
<1>1. NoCall \in CallType /\ NoCall.pc = "idle"
  BY DEF NoCall, CallType
<1>2. /\ calls' \in [Calls -> CallType] /\ \A c \in Calls : calls'[c].pc = "idle"
      /\ inflight' = None /\ active' = 0 /\ others' = 0 /\ waiting' = 0
  BY <1>1 DEF Launch
<1>3. "idle" \notin Working /\ "idle" \notin Holding
  BY DEF Working, Holding
<1>4. OneDownload'
  BY <1>2, <1>3, NamesAssumption, BoundsAssumption DEF OneDownload, Joined, At
<1> QED  BY <1>2, <1>4, BoundsAssumption DEF CallsOK

\* Nothing else touches the calls or the semaphore.
LEMMA QuietCalls ==
    ASSUME \/ StrayWrites \/ DrainAsked \/ StaleSteps \/ ConfirmSteps \/ LoseFile \/ UNCHANGED vars
           \/ \E s \in Screens : ImageFails(s)
    PROVE  UNCHANGED <<calls, inflight, slots>>
<1>1. CASE StaleSteps
  BY <1>1 DEF StaleSteps, SweepSteps, SweepLists, SweepTmp, SweepFile, SweepRows, SweepProbed,
              Hydrate, LibraryOpens, LibraryProbed, TeardownStarts, TeardownEnds, MetaStarts,
              MetaProbed, MetaMerges
<1>2. CASE ConfirmSteps
  BY <1>2 DEF ConfirmSteps, ConfirmDrain, Evict, RecoveryResets, RecoveryClears, RecoverySignsIn,
              ServeAsk, AskResumes, AskLost
<1> QED  BY <1>1, <1>2 DEF StrayWrites, DrainAsked, LoseFile, ImageFails, vars

\* Of the steps of the call that works, those that leave the promotion alone.
LEMMA WorkUndisturbed ==
    ASSUME CallsOK, NEW c \in Calls,
           \/ Start(c) \/ Received(c) \/ ReceivedAltered(c) \/ NotReceived(c) \/ Interrupted(c)
           \/ Verify(c) \/ Cleanup(c)
    PROVE  Undisturbed
<1>1. CASE Cleanup(c)
  <2>1. calls' = [d \in Calls |-> IF d \in {c} \cup Joined THEN NoCall ELSE calls[d]]
        /\ calls[c].pc = "cleanup"
    BY <1>1 DEF Cleanup, Settle, At
  <2>2. NoCall.pc = "idle"
    BY DEF NoCall
  <2> QED  BY <2>1, <2>2 DEF Undisturbed, Promotion, Joined, At
<1>2. CASE ~Cleanup(c)
  <2>1. \E pc \in {"transfer", "verify", "decrypt", "cleanup"} : Goto(c, pc)
    BY <1>2 DEF Start, Received, ReceivedAltered, NotReceived, Interrupted, Verify, Fail
  <2>2. calls[c].pc \notin Promotion
    BY <1>2 DEF Start, Received, ReceivedAltered, NotReceived, Interrupted, Verify, At, Promotion
  <2> QED  BY <2>1, <2>2, GotoPost DEF Undisturbed, Promotion, PCs, Working, Holding
<1> QED  BY <1>1, <1>2

\* The steps of a promotion.
Promotes(c) == Decrypt(c) \/ Promote(c) \/ Move(c) \/ MoveFails(c) \/ Persist(c)

LEMMA Undisturbs ==
    ASSUME CallsOK, ScreensOK, [Next]_vars, ~Crash, \A c \in Calls : ~Promotes(c)
    PROVE  Undisturbed
<1>1. CASE \E c \in Calls : CallSteps(c) \/ ReceivedAltered(c) \/ ExportCancelled(c)
  BY <1>1, WorkUndisturbed, ProbedCalls, ExportCancelledCalls DEF CallSteps, Promotes
<1>2. CASE \E s \in Screens : Mount(s) \/ Render(s) \/ Unmount(s) \/ Retry(s)
  BY <1>2, EffectCalls, UnmountCalls, RetryCalls DEF Mount, Render
<1>3. CASE OtherStarts \/ OtherQueues \/ OtherEnds \/ Export \/ DrainStarts \/ DrainEnds
  BY <1>3, OtherCalls, StartedCalls
<1>4. CASE UNCHANGED <<calls, inflight, slots>>
  BY <1>4 DEF Undisturbed
<1> QED  BY <1>1, <1>2, <1>3, <1>4, QuietCalls DEF Next, ScreenSteps

LEMMA CallsStep == CallsOK /\ ScreensOK /\ [Next]_vars => CallsOK'
<1> SUFFICES ASSUME CallsOK, ScreensOK, [Next]_vars PROVE CallsOK'
  OBVIOUS
<1>1. CASE \E c \in Calls : CallSteps(c) \/ ReceivedAltered(c) \/ ExportCancelled(c)
  BY <1>1, WorkSteps, ProbedCalls, EndCalls, ExportCancelledCalls DEF CallSteps
<1>2. CASE \E s \in Screens : Mount(s) \/ Render(s) \/ Unmount(s) \/ Retry(s)
  BY <1>2, EffectCalls, UnmountCalls, RetryCalls DEF Mount, Render
<1>3. CASE OtherStarts \/ OtherQueues \/ OtherEnds \/ Export \/ DrainStarts \/ DrainEnds
  BY <1>3, OtherCalls, StartedCalls
<1>4. CASE Crash
  BY <1>4, LaunchCalls DEF Crash
<1>5. CASE UNCHANGED <<calls, inflight, slots>>
  BY <1>5, SameKinds DEF CallsOK
<1> QED  BY <1>1, <1>2, <1>3, <1>4, <1>5, QuietCalls DEF Next, ScreenSteps

-----------------------------------------------------------------------------
(* The rest of the state keeps its type.                                    *)

LEMMA SettleScreens ==
    ASSUME ScreensOK, NEW cs, NEW ended, NEW sentinel, Settle(cs, ended, sentinel)
    PROVE  ScreensOK'
<1>1. ASSUME NEW s \in Screens PROVE screens'[s] \in ScreenType
  <2> DEFINE own == {c \in ended : cs[c].by = s}
             view == [screens[s] EXCEPT !.ref = IF @ \in ended THEN None ELSE @]
             woken == sentinel /\ \E c \in own : ~cs[c].aborted
  <2>1. view \in ScreenType
    BY DEF ScreensOK, ScreenType
  <2>2. screens'[s] = IF own = {} THEN view
                      ELSE [view EXCEPT !.busy = FALSE, !.bump = @ \/ woken]
    BY DEF Settle
  <2>3. woken \in BOOLEAN
    OBVIOUS
  <2> HIDE DEF own, view, woken
  <2> QED  BY <2>1, <2>2, <2>3 DEF ScreenType
<1>2. screens' = [s \in Screens |-> screens'[s]]
  BY DEF Settle
<1> QED  BY <1>1, <1>2 DEF ScreensOK

LEMMA EffectScreens ==
    ASSUME ScreensOK, NEW s \in Screens, NEW view \in ScreenType, Effect(s, view)
    PROVE  ScreensOK'
<1>1. ShouldDownload \in BOOLEAN
  BY DEF ShouldDownload
<1>2. CASE screens' = [screens EXCEPT ![s] = [view EXCEPT !.armed = FALSE, !.bump = FALSE,
                                                         !.seen = ShouldDownload]]
  BY <1>1, <1>2 DEF ScreensOK, ScreenType
<1>3. CASE \E c \in Idle :
              screens' = [screens EXCEPT ![s] = [view EXCEPT !.busy = TRUE, !.armed = TRUE,
                              !.bump = FALSE, !.seen = TRUE, !.ref = c]]
  <2>1. PICK c \in Idle :
          screens' = [screens EXCEPT ![s] = [view EXCEPT !.busy = TRUE, !.armed = TRUE,
                          !.bump = FALSE, !.seen = TRUE, !.ref = c]]
    BY <1>3
  <2>2. c \in Calls
    BY IdleCall
  <2>3. [view EXCEPT !.busy = TRUE, !.armed = TRUE, !.bump = FALSE, !.seen = TRUE, !.ref = c]
          \in ScreenType
    BY <2>2 DEF ScreenType
  <2> QED  BY <2>1, <2>3 DEF ScreensOK
<1> QED  BY <1>2, <1>3 DEF Effect

LEMMA ScreensStep == ScreensOK /\ [Next]_vars => ScreensOK'
<1> SUFFICES ASSUME ScreensOK, [Next]_vars PROVE ScreensOK'
  OBVIOUS
<1>1. NoScreen \in ScreenType
  BY DEF NoScreen, ScreenType
<1>2. CASE UNCHANGED screens
  BY <1>2 DEF ScreensOK
<1>3. ASSUME NEW c \in Calls, CallSteps(c) PROVE ScreensOK'
  <2>1. CASE Probed(c)
    BY <1>2, <2>1, SettleScreens DEF Probed
  <2>2. CASE Persist(c)
    BY <2>2, SettleScreens DEF Persist
  <2>3. CASE Cleanup(c)
    BY <2>3, SettleScreens DEF Cleanup
  <2>4. CASE ~Probed(c) /\ ~Persist(c) /\ ~Cleanup(c)
    BY <1>2, <1>3, <2>4 DEF CallSteps, Start, Received, NotReceived, Interrupted, Verify, Decrypt,
                            Promote, Move, MoveFails
  <2> QED  BY <2>1, <2>2, <2>3, <2>4
<1>4. ASSUME NEW s \in Screens, ScreenSteps(s) PROVE ScreensOK'
  <2>1. CASE Mount(s)
    BY <1>1, <2>1, EffectScreens DEF Mount, NoScreen, ScreenType
  <2>2. CASE Render(s)
    <3>1. [screens[s] EXCEPT !.ref = IF screens[s].armed THEN None ELSE @] \in ScreenType
      BY DEF ScreensOK, ScreenType
    <3> QED  BY <2>2, <3>1, EffectScreens DEF Render
  <2>3. CASE Unmount(s)
    BY <1>1, <2>3 DEF Unmount, ScreensOK
  <2>4. CASE Retry(s)
    BY <2>4, IdleCall DEF Retry, ScreensOK, ScreenType
  <2>5. CASE ImageFails(s)
    BY <1>2, <2>5 DEF ImageFails
  <2> QED  BY <1>4, <2>1, <2>2, <2>3, <2>4, <2>5 DEF ScreenSteps
<1>5. CASE Crash
  BY <1>1, <1>5 DEF Crash, Launch, ScreensOK
<1>6. CASE StaleSteps \/ ConfirmSteps
  BY <1>2, <1>6 DEF StaleSteps, SweepSteps, SweepLists, SweepTmp, SweepFile, SweepRows,
        SweepProbed, Hydrate, LibraryOpens, LibraryProbed, TeardownStarts, TeardownEnds,
        MetaStarts, MetaProbed, MetaMerges, ConfirmSteps, ConfirmDrain, Evict, RecoveryResets,
        RecoveryClears, RecoverySignsIn, ServeAsk, AskResumes, AskLost
<1>7. CASE \/ \E c \in Calls : ReceivedAltered(c) \/ ExportCancelled(c)
           \/ OtherStarts \/ OtherQueues \/ OtherEnds \/ StrayWrites
           \/ Export \/ DrainStarts \/ DrainAsked \/ DrainEnds \/ LoseFile \/ UNCHANGED vars
  BY <1>2, <1>7 DEF ReceivedAltered, ExportCancelled, OtherStarts, OtherQueues, OtherEnds,
        StrayWrites, Export, DrainStarts, DrainAsked, DrainEnds, LoseFile, vars
<1> QED  BY <1>3, <1>4, <1>5, <1>6, <1>7 DEF Next

LEMMA StateAfterType ==
    ASSUME NEW c, NEW cause
    PROVE  StateAfter(c, cause) \in {"pending", "unavailable", "failed"}
BY DEF StateAfter

\* The row and the entry of the store, whatever state they are given.
LEMMA RowStateType ==
    ASSUME PhotoOK, NEW state \in States, RowState(state) \/ UNCHANGED row
    PROVE  row' \in [state : States \cup {"deleted"}, path : BOOLEAN, confirmed : BOOLEAN]
BY DEF PhotoOK, RowState, Deleted

LEMMA ItemStateType ==
    ASSUME PhotoOK, NEW state \in States, ItemState(state) \/ UNCHANGED item
    PROVE  item' \in States \cup {"absent"}
BY DEF PhotoOK, ItemState

LEMMA FailPhoto ==
    ASSUME PhotoOK, NEW c, NEW cause, Fail(c, cause), UNCHANGED file,
           tmp' \in {"none", "left", "part", "whole", "broken"}, staged' \in {"none", "whole", "altered"}
    PROVE  PhotoOK'
<1>1. StateAfter(c, cause) \in States
  BY StateAfterType DEF States
<1> QED  BY <1>1, RowStateType, ItemStateType DEF Fail, PhotoOK

LEMMA WorkPhoto ==
    ASSUME PhotoOK, TmpOK, NEW c \in Calls, CallSteps(c)
    PROVE  PhotoOK'
<1>1. {"pending", "downloading", "downloaded", "failed", "unavailable"} = States
  BY DEF States
<1>2. CASE Probed(c) \/ Received(c) \/ Promote(c) \/ Cleanup(c)
  BY <1>2 DEF Probed, Received, Promote, Cleanup, PhotoOK, disk
<1>3. CASE Start(c)
  <2>1. CASE Fail(c, "abort") /\ UNCHANGED disk
    BY <2>1, FailPhoto DEF disk, PhotoOK
  <2>2. CASE RowState("downloading") /\ ItemState("downloading") /\ CleanStart
    BY <1>1, <2>2, RowStateType, ItemStateType DEF PhotoOK, CleanStart
  <2> QED  BY <1>3, <2>1, <2>2 DEF Start
<1>4. CASE NotReceived(c)
  BY <1>4, FailPhoto DEF NotReceived, disk, PhotoOK
<1>5. CASE Interrupted(c)
  BY <1>5, FailPhoto DEF Interrupted, disk, PhotoOK
<1>6. CASE MoveFails(c)
  BY <1>6, FailPhoto DEF MoveFails, disk, PhotoOK
<1>7. CASE Verify(c)
  <2>1. CASE tmp' = "part" /\ UNCHANGED <<row, item>>
    BY <1>7, <2>1 DEF Verify, PhotoOK
  <2>2. CASE Fail(c, "verify") /\ UNCHANGED tmp
    BY <1>7, <2>2, FailPhoto DEF Verify, PhotoOK
  <2> QED  BY <1>7, <2>1, <2>2 DEF Verify
<1>8. CASE Decrypt(c)
  <2>1. tmp' \in {"whole", "broken"} /\ UNCHANGED <<file, staged>>
    BY <1>8 DEF Decrypt, Plaintext
  <2>2. CASE UNCHANGED <<row, item>>
    BY <2>1, <2>2 DEF PhotoOK
  <2>3. CASE Fail(c, "size")
    BY <2>1, <2>3, FailPhoto DEF PhotoOK
  <2> QED  BY <1>8, <2>2, <2>3 DEF Decrypt
<1>9. CASE Persist(c)
  BY <1>1, <1>9, ItemStateType DEF Persist, RowDownloaded, Deleted, PhotoOK, disk
<1>10. CASE Move(c)
  BY <1>10 DEF Move, At, TmpOK, PhotoOK
<1> QED  BY <1>2, <1>3, <1>4, <1>5, <1>6, <1>7, <1>8, <1>9, <1>10 DEF CallSteps

LEMMA StalePhoto ==
    ASSUME PhotoOK, TasksOK, StaleSteps
    PROVE  PhotoOK'
<1>1. {"pending", "downloading", "downloaded", "failed", "unavailable"} = States
  BY DEF States
<1>2. CASE SweepLists \/ SweepTmp \/ SweepRows \/ TeardownEnds \/ MetaStarts
  BY <1>2 DEF SweepLists, SweepTmp, SweepRows, TeardownEnds, MetaStarts, PhotoOK, disk
<1>3. CASE SweepFile \/ LibraryProbed
  BY <1>1, <1>3, ItemStateType DEF SweepFile, LibraryProbed, RowDownloaded, Deleted, PhotoOK, disk
<1>4. CASE SweepProbed
  BY <1>1, <1>4, RowStateType DEF SweepProbed, PhotoOK, disk
<1>5. CASE Hydrate \/ LibraryOpens
  <2>1. row.state \in States
    BY <1>5 DEF Hydrate, LibraryOpens, Deleted, PhotoOK
  <2> QED  BY <1>5, <2>1 DEF Hydrate, LibraryOpens, Merged, PhotoOK, disk
<1>6. CASE MetaProbed \/ TeardownStarts
  <2>1. row' \in [state : States \cup {"deleted"}, path : BOOLEAN, confirmed : BOOLEAN]
    <3>1. PICK state \in States \cup {"deleted"} :
            \/ UNCHANGED row
            \/ row' = [state |-> state, path |-> FALSE, confirmed |-> FALSE]
      BY <1>1, <1>6 DEF MetaProbed, TeardownStarts
    <3>2. CASE UNCHANGED row
      BY <3>2 DEF PhotoOK
    <3>3. CASE row' = [state |-> state, path |-> FALSE, confirmed |-> FALSE]
      BY <3>3
    <3> QED  BY <3>1, <3>2, <3>3
  <2> QED  BY <1>6, <2>1 DEF MetaProbed, TeardownStarts, PhotoOK, disk
<1>7. CASE MetaMerges
  <2>1. item' \in States \cup {"absent"}
    BY <1>7 DEF MetaMerges, Merged, PhotoOK, TasksOK
  <2> QED  BY <1>7, <2>1 DEF MetaMerges, PhotoOK, disk
<1> QED  BY <1>2, <1>3, <1>4, <1>5, <1>6, <1>7 DEF StaleSteps, SweepSteps

LEMMA PhotoStep == PhotoOK /\ TmpOK /\ TasksOK /\ [Next]_vars => PhotoOK'
<1> SUFFICES ASSUME PhotoOK, TmpOK, TasksOK, [Next]_vars PROVE PhotoOK'
  OBVIOUS
<1>1. {"pending", "downloading", "downloaded", "failed", "unavailable"} = States
  BY DEF States
<1>2. CASE UNCHANGED <<row, disk, item>>
  BY <1>2 DEF PhotoOK, disk
<1>3. CASE \E c \in Calls : ReceivedAltered(c) \/ ExportCancelled(c)
  BY <1>2, <1>3 DEF ReceivedAltered, ExportCancelled, PhotoOK
<1>4. ASSUME NEW s \in Screens, ScreenSteps(s) PROVE PhotoOK'
  <2>1. CASE Retry(s)
    BY <1>1, <2>1, RowStateType, ItemStateType DEF Retry, PhotoOK, disk
  <2>2. CASE ImageFails(s)
    BY <1>1, <2>2, ItemStateType DEF ImageFails, PhotoOK, disk
  <2>3. CASE Mount(s) \/ Render(s) \/ Unmount(s)
    BY <1>2, <2>3 DEF Mount, Render, Unmount
  <2> QED  BY <1>4, <2>1, <2>2, <2>3 DEF ScreenSteps
<1>5. CASE Crash \/ LoseFile \/ StrayWrites
  BY <1>5 DEF Crash, Launch, LoseFile, StrayWrites, PhotoOK
<1>6. CASE ConfirmSteps
  BY <1>2, <1>6 DEF ConfirmSteps, ConfirmDrain, Evict, RecoveryResets, RecoveryClears,
        RecoverySignsIn, ServeAsk, AskResumes, AskLost, RowConfirmed, Deleted, PhotoOK, disk
<1>7. CASE \/ OtherStarts \/ OtherQueues \/ OtherEnds
           \/ Export \/ DrainStarts \/ DrainAsked \/ DrainEnds \/ UNCHANGED vars
  BY <1>2, <1>7 DEF OtherStarts, OtherQueues, OtherEnds, Export, DrainStarts, DrainAsked,
        DrainEnds, vars
<1> QED  BY <1>3, <1>4, <1>5, <1>6, <1>7, WorkPhoto, StalePhoto DEF Next

\* What is promoted is whole: a step of another leaves the plaintext alone or removes it.
LEMMA TmpStep == CallsOK /\ ScreensOK /\ TmpOK /\ [Next]_vars => TmpOK'
<1> SUFFICES ASSUME CallsOK, ScreensOK, TmpOK, [Next]_vars PROVE TmpOK'
  OBVIOUS
<1>1. CASE Crash
  BY <1>1 DEF Crash, Launch, NoCall, TmpOK
<1>2. ASSUME NEW c \in Calls, Promotes(c) PROVE TmpOK'
  <2>1. \A d \in Calls \ {c} : calls[d].pc \notin {"promote", "move"}
    <3>1. calls[c].pc \in Working
      BY <1>2 DEF Promotes, Decrypt, Promote, Move, MoveFails, Persist, At, Working, Holding
    <3> QED  BY <3>1 DEF CallsOK, OneDownload, Working, Holding
  <2>2. CASE Decrypt(c)
    <3>1. (tmp' = "whole" /\ Goto(c, "promote")) \/ Goto(c, "cleanup")
      BY <2>2 DEF Decrypt, Sound, Fail
    <3>2. UNCHANGED file /\ \A d \in Calls \ {c} : calls'[d] = calls[d]
      BY <2>2, <3>1, GotoPost DEF Decrypt, PCs, Working, Holding
    <3>3. tmp' = "whole" \/ calls'[c].pc = "cleanup"
      BY <3>1, GotoPost DEF PCs, Working, Holding
    <3> QED  BY <2>1, <3>2, <3>3 DEF TmpOK
  <2>3. CASE Promote(c)
    <3>1. calls[c].pc = "promote" /\ UNCHANGED tmp /\ file' = "none"
      BY <2>3 DEF Promote, At
    <3>2. \A d \in Calls \ {c} : calls'[d] = calls[d]
      BY <2>3 DEF Promote, CallsOK
    <3> QED  BY <2>1, <3>1, <3>2 DEF TmpOK
  <2>4. CASE Move(c)
    BY <2>4 DEF Move, At, TmpOK
  <2>5. CASE MoveFails(c)
    <3>1. UNCHANGED <<file, tmp>> /\ Goto(c, "cleanup") /\ "cleanup" \in PCs
      BY <2>5 DEF MoveFails, Fail, disk, PCs, Working, Holding
    <3> QED  BY <3>1, GotoPost DEF TmpOK
  <2>6. CASE Persist(c)
    <3>1. /\ calls' = [d \in Calls |-> IF d \in {c} \cup Joined THEN NoCall ELSE calls[d]]
          /\ UNCHANGED <<file, tmp>>
      BY <2>6 DEF Persist, Settle, disk
    <3> QED  BY <3>1 DEF TmpOK, NoCall
  <2> QED  BY <1>2, <2>2, <2>3, <2>4, <2>5, <2>6 DEF Promotes
<1>3. CASE Undisturbed /\ tmp' \in {tmp, "none"} /\ file' \in {file, "none"}
  BY <1>3 DEF Undisturbed, Promotion, TmpOK
<1>4. ASSUME NEW c \in Calls, CallSteps(c), ~Promotes(c), Undisturbed PROVE TmpOK'
  <2>1. CASE Verify(c)
    <3>1. \A d \in Calls : calls'[d].pc \notin {"promote", "move"}
      BY <1>4, <2>1 DEF Verify, At, CallsOK, OneDownload, Undisturbed, Promotion, Working, Holding
    <3> QED  BY <2>1, <3>1 DEF Verify, TmpOK
  <2>2. CASE ~Verify(c)
    BY <1>3, <1>4, <2>2 DEF CallSteps, Promotes, Probed, Start, CleanStart, Received, NotReceived,
          Interrupted, Cleanup, disk
  <2> QED  BY <2>1, <2>2
<1>5. CASE /\ Undisturbed
           /\ \/ \E c \in Calls : ReceivedAltered(c) \/ ExportCancelled(c)
              \/ \E s \in Screens : ScreenSteps(s)
              \/ OtherStarts \/ OtherQueues \/ OtherEnds \/ StrayWrites \/ Export \/ DrainStarts
              \/ DrainAsked \/ DrainEnds \/ LoseFile \/ UNCHANGED vars
  BY <1>3, <1>5 DEF ReceivedAltered, ExportCancelled, ScreenSteps, Mount, Render, Unmount, Retry,
        ImageFails, OtherStarts, OtherQueues, OtherEnds, StrayWrites, Export, DrainStarts,
        DrainAsked, DrainEnds, LoseFile, vars, disk
<1>6. CASE Undisturbed /\ (StaleSteps \/ ConfirmSteps)
  <2>1. CASE StaleSteps
    BY <1>3, <1>6, <2>1 DEF StaleSteps, SweepSteps, SweepLists, SweepTmp, SweepFile, SweepRows,
          SweepProbed, Hydrate, LibraryOpens, LibraryProbed, TeardownStarts, TeardownEnds,
          MetaStarts, MetaProbed, MetaMerges, disk
  <2>2. CASE ConfirmSteps
    BY <1>3, <1>6, <2>2 DEF ConfirmSteps, ConfirmDrain, Evict, RecoveryResets, RecoveryClears,
          RecoverySignsIn, ServeAsk, AskResumes, AskLost, disk
  <2> QED  BY <1>6, <2>1, <2>2
<1>7. Crash \/ Undisturbed \/ \E c \in Calls : Promotes(c)
  BY Undisturbs
<1> QED  BY <1>1, <1>2, <1>4, <1>5, <1>6, <1>7 DEF Next

LEMMA FlagsStep == FlagsOK /\ [Next]_vars => FlagsOK'
<1> SUFFICES ASSUME FlagsOK, [Next]_vars PROVE FlagsOK'
  OBVIOUS
<1>1. CASE UNCHANGED <<server, prefetch, ask, recovery, teardown, history>>
  BY <1>1 DEF FlagsOK, server, prefetch, history
<1>2. ASSUME NEW c \in Calls, CallSteps(c) \/ ReceivedAltered(c) \/ ExportCancelled(c)
      PROVE  FlagsOK'
  <2>1. CASE MoveFails(c)
    <3>1. torn' \in BOOLEAN
      BY <2>1 DEF MoveFails
    <3> QED  BY <2>1, <3>1 DEF MoveFails, FlagsOK, server, prefetch, tasks
  <2>2. CASE Persist(c)
    BY <2>2 DEF Persist, Confirm, FlagsOK, server, prefetch, tasks, history
  <2>3. CASE ~MoveFails(c) /\ ~Persist(c)
    BY <1>1, <1>2, <2>3 DEF CallSteps, Probed, Start, Received, ReceivedAltered, NotReceived,
          Interrupted, Verify, Decrypt, Promote, Move, Cleanup, ExportCancelled, tasks
  <2> QED  BY <2>1, <2>2, <2>3
<1>3. CASE \E s \in Screens : ScreenSteps(s)
  BY <1>1, <1>3 DEF ScreenSteps, Mount, Render, Unmount, Retry, ImageFails, tasks
<1>4. CASE OtherStarts \/ OtherQueues \/ OtherEnds \/ StrayWrites \/ Export \/ UNCHANGED vars
  BY <1>1, <1>4 DEF OtherStarts, OtherQueues, OtherEnds, StrayWrites, Export, vars, tasks
<1>5. CASE DrainStarts \/ DrainAsked \/ DrainEnds
  <2>1. draining' \in BOOLEAN /\ rerun' \in BOOLEAN
    BY <1>5 DEF DrainStarts, DrainAsked, DrainEnds, DrainGoesOn, FlagsOK
  <2>2. UNCHANGED <<server, tasks, ask, recovery, history>>
    BY <1>5 DEF DrainStarts, DrainAsked, DrainEnds
  <2> QED  BY <2>1, <2>2 DEF FlagsOK, server, tasks, history
<1>6. CASE StaleSteps
  <2>1. CASE TeardownStarts \/ TeardownEnds
    BY <2>1 DEF TeardownStarts, TeardownEnds, FlagsOK, server, prefetch, history
  <2>2. CASE SweepSteps
    BY <1>1, <2>2 DEF SweepSteps, SweepLists, SweepTmp, SweepFile, SweepRows, SweepProbed
  <2>3. CASE Hydrate \/ LibraryOpens \/ LibraryProbed \/ MetaStarts \/ MetaProbed \/ MetaMerges
    BY <1>1, <2>3 DEF Hydrate, LibraryOpens, LibraryProbed, MetaStarts, MetaProbed, MetaMerges,
          tasks
  <2> QED  BY <1>6, <2>1, <2>2, <2>3 DEF StaleSteps
<1>7. CASE ConfirmSteps
  <2>1. CASE ServeAsk
    <3>1. archived' \in BOOLEAN
      BY <2>1 DEF ServeAsk
    <3> QED  BY <2>1, <3>1 DEF ServeAsk, FlagsOK, prefetch, tasks, history
  <2> QED  BY <1>7, <2>1 DEF ConfirmSteps, ConfirmDrain, Evict, RecoveryResets, RecoveryClears,
             RecoverySignsIn, AskResumes, AskLost, FlagsOK, server, prefetch, tasks, history
<1>8. CASE Crash
  <2>1. torn' \in BOOLEAN
    BY <1>8 DEF Crash
  <2> QED  BY <1>8, <2>1 DEF Crash, Launch, FlagsOK, server
<1>9. CASE LoseFile
  BY <1>9 DEF LoseFile, FlagsOK, server, prefetch, tasks
<1> QED  BY <1>2, <1>3, <1>4, <1>5, <1>6, <1>7, <1>8, <1>9 DEF Next

LEMMA TasksStep == PhotoOK /\ TasksOK /\ [Next]_vars => TasksOK'
<1> SUFFICES ASSUME PhotoOK, TasksOK, [Next]_vars PROVE TasksOK'
  OBVIOUS
<1>1. CASE UNCHANGED <<sweep, library, meta>>
  BY <1>1 DEF TasksOK
<1>2. CASE SweepSteps
  <2>1. UNCHANGED <<library, meta>>
    BY <1>2 DEF SweepSteps, SweepLists, SweepTmp, SweepFile, SweepRows, SweepProbed
  <2>2. CASE SweepLists
    <3>1. PICK old \in BOOLEAN : sweep' = [at |-> "files", file |-> file # "none", tmp |-> old]
      BY <2>2 DEF SweepLists
    <3> QED  BY <2>1, <3>1 DEF TasksOK
  <2>3. CASE SweepTmp \/ SweepFile
    BY <2>1, <2>3 DEF SweepTmp, SweepFile, TasksOK
  <2>4. CASE SweepRows \/ SweepProbed
    <3>1. PICK saw \in BOOLEAN : saw = (file # "none")
      OBVIOUS
    <3>2. sweep' = NoSweep \/ sweep' = [at |-> "probe", file |-> saw, tmp |-> FALSE]
      BY <2>4, <3>1 DEF SweepRows, SweepProbed
    <3>3. sweep' \in [at : {"off", "list", "files", "probe"}, file : BOOLEAN, tmp : BOOLEAN]
      <4>1. CASE sweep' = NoSweep
        BY <4>1 DEF NoSweep
      <4>2. CASE sweep' = [at |-> "probe", file |-> saw, tmp |-> FALSE]
        BY <4>2
      <4> QED  BY <3>2, <4>1, <4>2
    <3> QED  BY <2>1, <3>3 DEF TasksOK
  <2> QED  BY <1>2, <2>2, <2>3, <2>4 DEF SweepSteps
<1>3. CASE LibraryOpens \/ LibraryProbed
  <2>1. PICK saw \in BOOLEAN : saw = (file # "none")
    OBVIOUS
  <2>2. library' = library \/ library' = NoProbe \/ library' = [at |-> "probe", saw |-> saw]
    BY <1>3, <2>1 DEF LibraryOpens, LibraryProbed
  <2>3. library' \in [at : {"off", "probe"}, saw : BOOLEAN]
    <3>1. CASE library' = library
      BY <3>1 DEF TasksOK
    <3>2. CASE library' = NoProbe
      BY <3>2 DEF NoProbe
    <3>3. CASE library' = [at |-> "probe", saw |-> saw]
      BY <3>3
    <3> QED  BY <2>2, <3>1, <3>2, <3>3
  <2> QED  BY <1>3, <2>3 DEF LibraryOpens, LibraryProbed, TasksOK
<1>4. CASE MetaStarts
  <2>1. PICK saw \in BOOLEAN, at \in {"probe", "merge"}, snap \in {item, row.state} :
          meta' = [at |-> at, saw |-> saw, snap |-> snap] /\ (snap # item => snap # "deleted")
    BY <1>4 DEF MetaStarts, Deleted
  <2>2. snap \in States \cup {"absent"}
    BY <2>1 DEF PhotoOK
  <2> QED  BY <1>4, <2>1, <2>2 DEF MetaStarts, TasksOK
<1>5. CASE MetaProbed \/ MetaMerges
  <2>1. "pending" \in States
    BY DEF States
  <2> QED  BY <1>5, <2>1 DEF MetaProbed, MetaMerges, NoMeta, TasksOK
<1>6. CASE Crash
  BY <1>6 DEF Crash, Launch, NoSweep, NoProbe, NoMeta, TasksOK
<1>7. CASE \E c \in Calls : CallSteps(c) \/ ReceivedAltered(c) \/ ExportCancelled(c)
  BY <1>1, <1>7 DEF CallSteps, Probed, Start, Received, ReceivedAltered, NotReceived, Interrupted,
        Verify, Decrypt, Promote, Move, MoveFails, Persist, Cleanup, ExportCancelled, tasks
<1>8. CASE \E s \in Screens : ScreenSteps(s)
  BY <1>1, <1>8 DEF ScreenSteps, Mount, Render, Unmount, Retry, ImageFails, tasks
<1>9. CASE ConfirmSteps
  BY <1>1, <1>9 DEF ConfirmSteps, ConfirmDrain, Evict, RecoveryResets, RecoveryClears,
        RecoverySignsIn, ServeAsk, AskResumes, AskLost, tasks
<1>10. CASE \/ OtherStarts \/ OtherQueues \/ OtherEnds \/ StrayWrites \/ Export \/ DrainStarts
            \/ DrainAsked \/ DrainEnds \/ Hydrate \/ TeardownStarts \/ TeardownEnds \/ LoseFile
            \/ UNCHANGED vars
  BY <1>1, <1>10 DEF OtherStarts, OtherQueues, OtherEnds, StrayWrites, Export, DrainStarts,
        DrainAsked, DrainEnds, Hydrate, TeardownStarts, TeardownEnds, LoseFile, vars, tasks
<1> QED  BY <1>2, <1>3, <1>4, <1>5, <1>6, <1>7, <1>8, <1>9, <1>10 DEF Next, StaleSteps

LEMMA BoundsStep == BoundsOK /\ [Next]_vars => BoundsOK'
<1> SUFFICES ASSUME BoundsOK, [Next]_vars PROVE BoundsOK'
  OBVIOUS
<1>1. CASE UNCHANGED bounds \/ Fault \/ Visit
  BY <1>1, BoundsAssumption DEF BoundsOK, bounds, Fault, Visit
<1>2. CASE \E c \in Calls : CallSteps(c) \/ ReceivedAltered(c) \/ ExportCancelled(c)
  BY <1>1, <1>2 DEF CallSteps, Probed, Start, Received, ReceivedAltered, NotReceived, Interrupted,
        Verify, Decrypt, Promote, Move, MoveFails, Persist, Cleanup, ExportCancelled
<1>3. CASE \E s \in Screens : ScreenSteps(s)
  BY <1>1, <1>3 DEF ScreenSteps, Mount, Render, Unmount, Retry, ImageFails
<1>4. CASE StaleSteps
  BY <1>1, <1>4 DEF StaleSteps, SweepSteps, SweepLists, SweepTmp, SweepFile, SweepRows,
        SweepProbed, Hydrate, LibraryOpens, LibraryProbed, TeardownStarts, TeardownEnds,
        MetaStarts, MetaProbed, MetaMerges
<1>5. CASE ConfirmSteps
  BY <1>1, <1>5 DEF ConfirmSteps, ConfirmDrain, Evict, RecoveryResets, RecoveryClears,
        RecoverySignsIn, ServeAsk, AskResumes, AskLost
<1>6. CASE \/ OtherStarts \/ OtherQueues \/ OtherEnds \/ StrayWrites \/ Export \/ DrainStarts
           \/ DrainAsked \/ DrainEnds \/ Crash \/ LoseFile \/ UNCHANGED vars
  BY <1>1, <1>6 DEF OtherStarts, OtherQueues, OtherEnds, StrayWrites, Export, DrainStarts,
        DrainAsked, DrainEnds, Crash, LoseFile, vars
<1> QED  BY <1>2, <1>3, <1>4, <1>5, <1>6 DEF Next

LEMMA InitState == Init => StateOK
<1> SUFFICES ASSUME Init PROVE StateOK
  OBVIOUS
<1>1. NoCall \in CallType /\ NoCall.pc = "idle" /\ NoScreen \in ScreenType
  BY DEF NoCall, CallType, NoScreen, ScreenType
<1>2. "idle" \notin Working /\ "idle" \notin Holding
  BY DEF Working, Holding
<1>3. OneDownload
  BY <1>1, <1>2, NamesAssumption, BoundsAssumption DEF Init, OneDownload, Joined, At
<1>4. CallsOK
  BY <1>1, <1>3, BoundsAssumption DEF Init, CallsOK
<1>5. ScreensOK /\ PhotoOK /\ TmpOK
  BY <1>1 DEF Init, ScreensOK, PhotoOK, TmpOK, States
<1>6. TasksOK
  BY DEF Init, TasksOK, NoSweep, NoProbe, NoMeta
<1>7. FlagsOK
  BY DEF Init, FlagsOK
<1>8. BoundsOK
  BY BoundsAssumption DEF Init, BoundsOK
<1> QED  BY <1>4, <1>5, <1>6, <1>7, <1>8 DEF StateOK

LEMMA StateStep == StateOK /\ [Next]_vars => StateOK'
BY CallsStep, ScreensStep, PhotoStep, TmpStep, FlagsStep, TasksStep, BoundsStep DEF StateOK

\* Every variable has its type in every reachable state.
THEOREM TypeCorrect == Spec => []TypeOK
BY InitState, StateStep, StateIsTyped, PTL DEF Spec

\* However calls are begun, joined, aborted and awaited, one of them at a time works on the
\* photo's files, and the semaphore counts the downloads that hold a slot.
THEOREM OneDownloadAlways == Spec => []OneDownload
BY InitState, StateStep, StateIsTyped, PTL DEF Spec

-----------------------------------------------------------------------------
(* The photo is accounted for, and what vouches for it.                     *)

\* What says that the whole photo was there: the row, a confirmation, an eviction, a probe
\* that found it, a call about to write the row.
Vouched ==
    \/ row.state = "downloaded" \/ ask # "off" \/ archived \/ blob = "gone"
    \/ library.at = "probe" /\ library.saw
    \/ sweep.at = "files" /\ sweep.file
    \/ \E c \in Calls : At(c, "persist")

Kept ==
    /\ Vouched => Accounted
    /\ row.state = "downloaded" => row.path
    /\ Deleted => lost

\* A photo that is accounted for stays so: only a removal on purpose or from outside and a
\* torn promotion take the file away, and both are remembered.
LEMMA AccountedStays ==
    ASSUME StateOK, Kept, [Next]_vars, Accounted
    PROVE  Accounted'
<1> USE DEF StateOK
<1>1. ASSUME NEW c \in Calls, Promotes(c) PROVE Accounted'
  <2>1. CASE Decrypt(c)
    <3>1. UNCHANGED <<file, history>> /\ calls[c].pc = "decrypt"
          /\ \E pc \in {"promote", "cleanup"} : Goto(c, pc)
      BY <2>1 DEF Decrypt, Fail, At
    <3>2. \A d \in Calls : calls[d].pc = "move" => calls'[d] = calls[d]
      BY <3>1, GotoPost DEF PCs, Working, Holding
    <3> QED  BY <3>1, <3>2 DEF Accounted, At, history
  <2>2. CASE Promote(c)
    <3>1. UNCHANGED history /\ calls[c].pc = "promote"
          /\ calls' = [calls EXCEPT ![c].pc = "move", ![c].saw = file # "none"]
      BY <2>2 DEF Promote, At
    <3>2. /\ calls'[c].pc = "move" /\ calls'[c].saw = (file # "none")
          /\ \A d \in Calls \ {c} : calls'[d] = calls[d]
      BY <3>1 DEF CallsOK, CallType
    <3> QED  BY <3>1, <3>2 DEF Accounted, At, history
  <2>3. CASE Move(c)
    BY <2>3 DEF Move, At, TmpOK, Accounted, PhotoOK
  <2>4. CASE MoveFails(c)
    <3>1. /\ UNCHANGED <<file, lost>> /\ torn' = (torn \/ calls[c].saw)
          /\ Goto(c, "cleanup") /\ "cleanup" \in PCs
      BY <2>4 DEF MoveFails, Fail, disk, PCs, Working, Holding
    <3>2. \A d \in Calls \ {c} : calls'[d] = calls[d]
      BY <3>1, GotoPost
    <3> QED  BY <3>1, <3>2 DEF Accounted, At
  <2>5. CASE Persist(c)
    <3>1. UNCHANGED <<file, history>> /\ calls[c].pc = "persist"
          /\ calls' = [d \in Calls |-> IF d \in {c} \cup Joined THEN NoCall ELSE calls[d]]
      BY <2>5 DEF Persist, Settle, At, disk
    <3> QED  BY <3>1 DEF Accounted, At, Joined, history
  <2> QED  BY <1>1, <2>1, <2>2, <2>3, <2>4, <2>5 DEF Promotes
<1>2. CASE Crash
  BY <1>2 DEF Crash, Accounted, At
<1>3. CASE Undisturbed /\ UNCHANGED <<file, lost, torn>>
  BY <1>3 DEF Undisturbed, Promotion, Accounted, At
<1>4. CASE lost'
  BY <1>4 DEF Accounted
<1>5. ASSUME NEW c \in Calls, CallSteps(c) \/ ReceivedAltered(c) \/ ExportCancelled(c),
             ~Promotes(c), Undisturbed
      PROVE  Accounted'
  BY <1>3, <1>5 DEF CallSteps, Promotes, Probed, Start, CleanStart, Received, ReceivedAltered,
        NotReceived, Interrupted, Verify, Cleanup, ExportCancelled, disk, history
<1>6. CASE Undisturbed /\ StaleSteps
  <2>1. CASE TeardownStarts
    BY <2>1 DEF TeardownStarts, Accounted
  <2>2. CASE SweepFile
    BY <1>3, <1>4, <1>6, <2>2 DEF SweepFile, Kept, history
  <2> QED  BY <1>3, <1>6, <2>1, <2>2 DEF StaleSteps, SweepSteps, SweepLists, SweepTmp, SweepRows,
          SweepProbed, Hydrate, LibraryOpens, LibraryProbed, TeardownEnds, MetaStarts, MetaProbed,
          MetaMerges, disk, history
<1>7. CASE Undisturbed /\ ConfirmSteps
  BY <1>3, <1>7 DEF ConfirmSteps, ConfirmDrain, Evict, RecoveryResets, RecoveryClears,
        RecoverySignsIn, ServeAsk, AskResumes, AskLost, disk, history
<1>8. CASE LoseFile
  BY <1>8 DEF LoseFile, Accounted
<1>9. CASE /\ Undisturbed
            /\ \/ \E s \in Screens : ScreenSteps(s)
               \/ OtherStarts \/ OtherQueues \/ OtherEnds \/ StrayWrites \/ Export \/ DrainStarts
               \/ DrainAsked \/ DrainEnds \/ UNCHANGED vars
  BY <1>3, <1>9 DEF ScreenSteps, Mount, Render, Unmount, Retry, ImageFails, OtherStarts,
        OtherQueues, OtherEnds, StrayWrites, Export, DrainStarts, DrainAsked, DrainEnds, vars,
        disk, history
<1>10. Crash \/ Undisturbed \/ \E c \in Calls : Promotes(c)
  BY Undisturbs
<1> QED  BY <1>1, <1>2, <1>5, <1>6, <1>7, <1>8, <1>9, <1>10 DEF Next

\* A step that leaves row alone, or writes one of its other fields or another state.
RowQuiet ==
    \/ UNCHANGED row
    \/ \E state \in States \ {"downloaded"} : RowState(state)
    \/ \E flag \in BOOLEAN : RowConfirmed(flag)

\* The row comes to say downloaded, with its path, only where something vouched for the photo.
LEMMA RowVouched ==
    ASSUME StateOK, Kept, [Next]_vars
    PROVE  /\ row'.state = "downloaded" => row'.path /\ Vouched
           /\ row'.state = "deleted" => Deleted \/ lost'
<1> USE DEF StateOK
<1>1. {"pending", "downloading", "failed", "unavailable"} = States \ {"downloaded"}
  BY DEF States
<1>2. CASE RowQuiet
  <2>1. CASE UNCHANGED row
    BY <2>1 DEF Kept, Vouched, Deleted
  <2>2. CASE \E state \in States \ {"downloaded"} : RowState(state)
    BY <1>1, <2>2 DEF RowState, PhotoOK, Kept, Vouched, Deleted
  <2>3. CASE \E flag \in BOOLEAN : RowConfirmed(flag)
    BY <2>3 DEF RowConfirmed, PhotoOK, Kept, Vouched, Deleted
  <2> QED  BY <1>2, <2>1, <2>2, <2>3 DEF RowQuiet
<1>3. CASE RowDownloaded /\ Vouched
  BY <1>3 DEF RowDownloaded, PhotoOK, Deleted
<1>4. ASSUME NEW c \in Calls, CallSteps(c) PROVE RowQuiet \/ (RowDownloaded /\ Vouched)
  <2>1. \A cause : Fail(c, cause) => RowQuiet
    BY <1>1, StateAfterType DEF Fail, RowQuiet
  <2>2. CASE Start(c) \/ NotReceived(c) \/ Interrupted(c) \/ Verify(c) \/ Decrypt(c) \/ MoveFails(c)
    BY <1>1, <2>1, <2>2 DEF Start, NotReceived, Interrupted, Verify, Decrypt, MoveFails, RowQuiet
  <2>3. CASE Persist(c)
    BY <2>3 DEF Persist, Vouched, RowQuiet
  <2>4. CASE Probed(c) \/ Received(c) \/ Promote(c) \/ Move(c) \/ Cleanup(c)
    BY <2>4 DEF Probed, Received, Promote, Move, Cleanup, RowQuiet
  <2> QED  BY <1>4, <2>2, <2>3, <2>4 DEF CallSteps
<1>5. ASSUME NEW s \in Screens, ScreenSteps(s) PROVE RowQuiet
  BY <1>1, <1>5 DEF ScreenSteps, Mount, Render, Unmount, Retry, ImageFails, RowQuiet
<1>6. CASE StaleSteps
  <2>1. CASE SweepFile \/ LibraryProbed
    BY <1>2, <1>3, <2>1 DEF SweepFile, LibraryProbed, Vouched, RowQuiet
  <2>2. CASE MetaProbed
    <3>1. UNCHANGED row \/ row' = [state |-> "pending", path |-> FALSE, confirmed |-> FALSE]
      BY <2>2 DEF MetaProbed
    <3>2. CASE row' = [state |-> "pending", path |-> FALSE, confirmed |-> FALSE]
      BY <3>2
    <3> QED  BY <1>2, <3>1, <3>2 DEF RowQuiet
  <2>3. CASE TeardownStarts
    <3>1. row' = [state |-> "deleted", path |-> FALSE, confirmed |-> FALSE] /\ lost'
      BY <2>3 DEF TeardownStarts
    <3> QED  BY <3>1
  <2>4. CASE SweepProbed
    BY <1>1, <1>2, <2>4 DEF SweepProbed, RowQuiet
  <2>5. CASE \/ SweepLists \/ SweepTmp \/ SweepRows \/ Hydrate \/ LibraryOpens \/ TeardownEnds
             \/ MetaStarts \/ MetaMerges
    BY <1>2, <2>5 DEF SweepLists, SweepTmp, SweepRows, Hydrate, LibraryOpens, TeardownEnds,
          MetaStarts, MetaMerges, RowQuiet
  <2> QED  BY <1>6, <2>1, <2>2, <2>3, <2>4, <2>5 DEF StaleSteps, SweepSteps
<1>7. CASE ConfirmSteps
  BY <1>2, <1>7 DEF ConfirmSteps, ConfirmDrain, Evict, RecoveryResets, RecoveryClears,
        RecoverySignsIn, ServeAsk, AskResumes, AskLost, RowQuiet
<1>8. CASE \/ \E c \in Calls : ReceivedAltered(c) \/ ExportCancelled(c)
           \/ OtherStarts \/ OtherQueues \/ OtherEnds \/ StrayWrites \/ Export \/ DrainStarts
           \/ DrainAsked \/ DrainEnds \/ Crash \/ LoseFile \/ UNCHANGED vars
  BY <1>2, <1>8 DEF ReceivedAltered, ExportCancelled, OtherStarts, OtherQueues, OtherEnds,
        StrayWrites, Export, DrainStarts, DrainAsked, DrainEnds, Crash, LoseFile, vars, RowQuiet
<1> QED  BY <1>2, <1>3, <1>4, <1>5, <1>6, <1>7, <1>8 DEF Next

\* A removal on purpose or from outside is never forgotten.
LEMMA LostStays == lost /\ [Next]_vars => lost'
<1> SUFFICES ASSUME lost, [Next]_vars PROVE lost'
  OBVIOUS
<1>1. CASE \E c \in Calls : CallSteps(c) \/ ReceivedAltered(c) \/ ExportCancelled(c)
  BY <1>1 DEF CallSteps, Probed, Start, Received, ReceivedAltered, NotReceived, Interrupted, Verify,
        Decrypt, Promote, Move, MoveFails, Persist, Cleanup, ExportCancelled, history
<1>2. CASE \E s \in Screens : ScreenSteps(s)
  BY <1>2 DEF ScreenSteps, Mount, Render, Unmount, Retry, ImageFails, history
<1>3. CASE StaleSteps
  BY <1>3 DEF StaleSteps, SweepSteps, SweepLists, SweepTmp, SweepFile, SweepRows, SweepProbed,
        Hydrate, LibraryOpens, LibraryProbed, TeardownStarts, TeardownEnds, MetaStarts,
        MetaProbed, MetaMerges, history
<1>4. CASE ConfirmSteps
  BY <1>4 DEF ConfirmSteps, ConfirmDrain, Evict, RecoveryResets, RecoveryClears, RecoverySignsIn,
        ServeAsk, AskResumes, AskLost, history
<1>5. CASE \/ OtherStarts \/ OtherQueues \/ OtherEnds \/ StrayWrites \/ Export \/ DrainStarts
           \/ DrainAsked \/ DrainEnds \/ Crash \/ LoseFile \/ UNCHANGED vars
  BY <1>5 DEF OtherStarts, OtherQueues, OtherEnds, StrayWrites, Export, DrainStarts, DrainAsked,
        DrainEnds, Crash, LoseFile, vars, history
<1> QED  BY <1>1, <1>2, <1>3, <1>4, <1>5 DEF Next

\* The other witnesses begin to vouch where there was one, or where the file is there.
LEMMA WitnessVouched ==
    ASSUME StateOK, Kept, [Next]_vars, Vouched', row'.state # "downloaded"
    PROVE  Vouched \/ file = "whole" \/ file' = "whole"
<1> USE DEF StateOK
<1>1. CASE Undisturbed /\ UNCHANGED <<server, ask, library, sweep>>
  BY <1>1 DEF Undisturbed, Promotion, Vouched, server, At
<1>2. ASSUME NEW c \in Calls, Promotes(c) PROVE Vouched \/ file = "whole" \/ file' = "whole"
  <2>1. CASE Move(c)
    BY <2>1 DEF Move, At, TmpOK, PhotoOK
  <2>2. CASE Persist(c)
    BY <2>2 DEF Persist, Vouched
  <2>3. CASE Decrypt(c) \/ Promote(c) \/ MoveFails(c)
    <3>1. UNCHANGED <<server, ask, library, sweep>>
      BY <2>3 DEF Decrypt, Promote, MoveFails, tasks
    <3>2. \A d \in Calls : calls'[d].pc = "persist" => calls[d].pc = "persist"
      <4>1. CASE Promote(c)
        BY <4>1 DEF Promote, CallsOK, CallType
      <4>2. CASE \E pc \in {"promote", "cleanup"} : Goto(c, pc)
        BY <4>2, GotoPost DEF PCs, Working, Holding
      <4> QED  BY <2>3, <4>1, <4>2 DEF Decrypt, MoveFails, Fail
    <3> QED  BY <3>1, <3>2 DEF Vouched, server, At
  <2> QED  BY <1>2, <2>1, <2>2, <2>3 DEF Promotes
<1>3. CASE Crash
  BY <1>3 DEF Crash, Launch, NoSweep, NoProbe, NoCall, Vouched, server, At
<1>4. ASSUME NEW c \in Calls, CallSteps(c) \/ ReceivedAltered(c) \/ ExportCancelled(c),
             ~Promotes(c), Undisturbed
      PROVE  Vouched
  <2>1. UNCHANGED <<server, ask, library, sweep>>
    BY <1>4 DEF CallSteps, Promotes, Probed, Start, Received, ReceivedAltered, NotReceived,
          Interrupted, Verify, Cleanup, ExportCancelled, tasks
  <2> QED  BY <1>4, <2>1 DEF Undisturbed, Promotion, Vouched, server, At
<1>5. CASE Undisturbed /\ StaleSteps
  <2>1. CASE SweepSteps
    <3>1. CASE sweep'.at = "files" /\ sweep'.file
      <4>1. CASE SweepLists
        <5>1. PICK old : sweep' = [at |-> "files", file |-> file # "none", tmp |-> old]
          BY <4>1 DEF SweepLists
        <5>2. file # "none"
          BY <3>1, <5>1
        <5> QED  BY <5>2 DEF PhotoOK, TmpOK
      <4>2. CASE SweepTmp \/ SweepFile
        BY <3>1, <4>2 DEF SweepTmp, SweepFile, Vouched, TasksOK
      <4>3. CASE SweepRows \/ SweepProbed
        <5>1. sweep' = NoSweep \/ sweep' = [at |-> "probe", file |-> file # "none", tmp |-> FALSE]
          BY <4>3 DEF SweepRows, SweepProbed
        <5>2. sweep'.at # "files"
          BY <5>1 DEF NoSweep
        <5> QED  BY <3>1, <5>2
      <4> QED  BY <2>1, <4>1, <4>2, <4>3 DEF SweepSteps
    <3>2. CASE ~(sweep'.at = "files" /\ sweep'.file)
      <4>1. UNCHANGED <<server, ask, library>>
        BY <2>1 DEF SweepSteps, SweepLists, SweepTmp, SweepFile, SweepRows, SweepProbed
      <4> QED  BY <1>5, <3>2, <4>1 DEF Undisturbed, Promotion, Vouched, server, At
    <3> QED  BY <3>1, <3>2
  <2>2. CASE LibraryOpens \/ LibraryProbed
    <3>1. CASE library'.at = "probe" /\ library'.saw
      <4>1. \/ library' = library \/ library' = NoProbe
            \/ library' = [at |-> "probe", saw |-> file # "none"]
        BY <2>2 DEF LibraryOpens, LibraryProbed
      <4>2. CASE library' = [at |-> "probe", saw |-> file # "none"]
        <5>1. file # "none"
          BY <3>1, <4>2
        <5> QED  BY <5>1 DEF PhotoOK, TmpOK
      <4> QED  BY <3>1, <4>1, <4>2 DEF NoProbe, Vouched
    <3>2. CASE ~(library'.at = "probe" /\ library'.saw)
      <4>1. UNCHANGED <<server, ask, sweep>>
        BY <2>2 DEF LibraryOpens, LibraryProbed
      <4> QED  BY <1>5, <3>2, <4>1 DEF Undisturbed, Promotion, Vouched, server, At
    <3> QED  BY <3>1, <3>2
  <2>3. CASE Hydrate \/ TeardownStarts \/ TeardownEnds \/ MetaStarts \/ MetaProbed \/ MetaMerges
    BY <1>1, <1>5, <2>3 DEF Hydrate, TeardownStarts, TeardownEnds, MetaStarts, MetaProbed,
          MetaMerges, tasks
  <2> QED  BY <1>5, <2>1, <2>2, <2>3 DEF StaleSteps
<1>6. CASE Undisturbed /\ ConfirmSteps
  <2>1. UNCHANGED <<library, sweep>>
    BY <1>6 DEF ConfirmSteps, ConfirmDrain, Evict, RecoveryResets, RecoveryClears,
          RecoverySignsIn, ServeAsk, AskResumes, AskLost, tasks
  <2>2. CASE ConfirmDrain \/ ServeAsk \/ AskResumes \/ Evict
    BY <2>1, <2>2, <1>6 DEF ConfirmDrain, ServeAsk, AskResumes, Evict, Vouched, Undisturbed,
          Promotion, At, server
  <2>3. CASE RecoveryResets \/ RecoveryClears \/ RecoverySignsIn \/ AskLost
    BY <2>1, <2>3, <1>6 DEF RecoveryResets, RecoveryClears, RecoverySignsIn, AskLost, Vouched,
          Undisturbed, Promotion, At, server
  <2> QED  BY <1>6, <2>2, <2>3 DEF ConfirmSteps
<1>7. CASE /\ Undisturbed
           /\ \/ \E s \in Screens : ScreenSteps(s)
              \/ OtherStarts \/ OtherQueues \/ OtherEnds \/ StrayWrites \/ Export \/ DrainStarts
              \/ DrainAsked \/ DrainEnds \/ LoseFile \/ UNCHANGED vars
  BY <1>1, <1>7 DEF ScreenSteps, Mount, Render, Unmount, Retry, ImageFails, OtherStarts,
        OtherQueues, OtherEnds, StrayWrites, Export, DrainStarts, DrainAsked, DrainEnds, LoseFile,
        vars, tasks
<1>8. Crash \/ Undisturbed \/ \E c \in Calls : Promotes(c)
  BY Undisturbs
<1> QED  BY <1>2, <1>3, <1>4, <1>5, <1>6, <1>7, <1>8 DEF Next

LEMMA KeptStep == StateOK /\ Kept /\ [Next]_vars => Kept'
<1> SUFFICES ASSUME StateOK, Kept, [Next]_vars PROVE Kept'
  OBVIOUS
<1>1. Vouched => Accounted'
  BY AccountedStays DEF Kept
<1>2. file = "whole" => Accounted'
  BY AccountedStays DEF Accounted
<1>3. file' = "whole" => Accounted'
  BY DEF Accounted
<1>4. Vouched' => Accounted'
  BY <1>1, <1>2, <1>3, RowVouched, WitnessVouched
<1>5. Deleted' => lost'
  BY RowVouched, LostStays DEF Deleted, Kept
<1> QED  BY <1>4, <1>5, RowVouched DEF Kept

LEMMA KeptInit == Init => Kept
<1> SUFFICES ASSUME Init PROVE Kept
  OBVIOUS
<1>1. ~Vouched
  BY DEF Init, Vouched, NoSweep, NoProbe, NoCall, At
<1> QED  BY <1>1 DEF Init, Kept, Deleted

\* A row that says downloaded has a path and its whole photo on disk, whatever was interrupted
\* before it and whichever stale listing or probe wrote it, as far as it is accounted for.
THEOREM DownloadedIsWholeAlways == Spec => []DownloadedIsWhole
<1>1. Kept => DownloadedIsWhole
  BY DEF Kept, Vouched, DownloadedIsWhole
<1> QED  BY <1>1, InitState, StateStep, KeptInit, KeptStep, PTL DEF Spec

\* The server gives the photo up only while this device holds all of it, as far as it is
\* accounted for.
THEOREM CopyKeptAlways == Spec => []CopyKept
<1>1. Kept => CopyKept
  BY DEF Kept, Vouched, CopyKept
<1> QED  BY <1>1, InitState, StateStep, KeptInit, KeptStep, PTL DEF Spec

-----------------------------------------------------------------------------
(* The archive protocol.  Each step is one of ArchivedPhoto's, seen through   *)
(* Device, or changes neither copy and no confirmation.                       *)

LEMMA DeviceKnown ==
    /\ Accounted <=> Device # "never"
    /\ file = "whole" => Device = "held"
BY DEF Device, Accounted

\* Steps that leave the disk and the promotions alone leave the device's copy alone.
LEMMA DeviceStays ==
    ASSUME Undisturbed, UNCHANGED <<file, lost, torn>>
    PROVE  UNCHANGED Device
<1>1. \A c \in Calls : (calls[c].pc = "move" /\ calls[c].saw) <=> (calls'[c].pc = "move" /\ calls'[c].saw)
  BY DEF Undisturbed, Promotion
<1> QED  BY <1>1 DEF Device, At

\* A file that goes while the loss is remembered: the copy is lost, unless it was being replaced.
LEMMA DeviceGoes ==
    ASSUME Undisturbed, lost', file' \in {"none", file}
    PROVE  Device' \in {Device, "lost"}
<1>1. \A c \in Calls : (calls[c].pc = "move" /\ calls[c].saw) <=> (calls'[c].pc = "move" /\ calls'[c].saw)
  BY DEF Undisturbed, Promotion
<1> QED  BY <1>1 DEF Device, At

\* What a step may do to the device's copy and the confirmation on its way while the server
\* does nothing.
Unasked == ask' = ask \/ (ask # "out" /\ ask' # "out")
Promised == ask' = "out" /\ Vouched /\ Device' = Device
Dropped == ask' = "off" /\ Device' \in {Device, "lost"}
Local ==
    /\ UNCHANGED server
    /\ \/ Unasked /\ Device' \in {Device, "lost", "held"}
       \/ Promised \/ Dropped

LEMMA LocalAllowed ==
    ASSUME StateOK, Kept, Local
    PROVE  [Archive!Next]_(Archive!vars)
<1>1. blob' = blob /\ archived' = archived
  BY DEF Local, server
<1>2. CASE Unasked /\ Device' \in {Device, "lost", "held"}
  <2>1. (ask = "out")' = (ask = "out")
    BY <1>2 DEF Unasked
  <2>2. CASE Device' = Device
    BY <1>1, <2>1, <2>2 DEF Archive!vars
  <2>3. CASE Device' = "lost"
    BY <1>1, <2>1, <2>3 DEF Archive!Next, Archive!Lose
  <2>4. CASE Device' = "held"
    <3>1. Device = "never" => blob = "kept"
      BY DeviceKnown DEF StateOK, FlagsOK, Kept, Vouched
    <3> QED  BY <1>1, <2>1, <2>4, <3>1 DEF Archive!Next, Archive!Hold
  <2> QED  BY <1>2, <2>2, <2>3, <2>4
<1>3. CASE Promised
  <2>1. Device # "never"
    BY <1>3, DeviceKnown DEF Promised, Kept
  <2> QED  BY <1>1, <1>3, <2>1 DEF Promised, Archive!Next, Archive!Ask
<1>4. CASE Dropped
  <2>1. (ask = "out")' = FALSE
    BY <1>4 DEF Dropped
  <2> QED  BY <1>1, <1>4, <2>1 DEF Dropped, Archive!Next, Archive!Drop
<1> QED  BY <1>2, <1>3, <1>4 DEF Local

\* A promotion holds the old copy until the new one is there, or tears it.
LEMMA PromotionLocal ==
    ASSUME StateOK, NEW c \in Calls, Promotes(c)
    PROVE  Local
<1> USE DEF StateOK
<1>1. CASE Decrypt(c)
  <2>1. UNCHANGED <<file, history, ask, server>> /\ calls[c].pc = "decrypt"
        /\ \E pc \in {"promote", "cleanup"} : Goto(c, pc)
    BY <1>1 DEF Decrypt, Fail, At
  <2>2. /\ calls'[c].pc # "move"
        /\ \A d \in Calls \ {c} : calls'[d] = calls[d]
    BY <2>1, GotoPost DEF PCs, Working, Holding
  <2>3. UNCHANGED Device
    BY <2>1, <2>2 DEF Device, At, history
  <2> QED  BY <2>1, <2>3 DEF Local, Unasked
<1>2. CASE Promote(c)
  <2>1. /\ UNCHANGED <<history, ask, server>> /\ file' = "none" /\ calls[c].pc = "promote"
        /\ calls' = [calls EXCEPT ![c].pc = "move", ![c].saw = file # "none"]
    BY <1>2 DEF Promote, At
  <2>2. /\ calls'[c].pc = "move" /\ calls'[c].saw = (file # "none")
        /\ \A d \in Calls \ {c} : calls'[d] = calls[d]
    BY <2>1 DEF CallsOK, CallType
  <2>3. file \in {"none", "whole"}
    BY DEF PhotoOK, TmpOK
  <2>4. UNCHANGED Device
    BY <2>1, <2>2, <2>3 DEF Device, At, history
  <2> QED  BY <2>1, <2>4 DEF Local, Unasked
<1>3. CASE Move(c)
  <2>1. UNCHANGED <<ask, server>> /\ file' = "whole"
    BY <1>3 DEF Move, At, TmpOK, PhotoOK
  <2>2. Device' = "held"
    BY <2>1 DEF Device
  <2> QED  BY <2>1, <2>2 DEF Local, Unasked
<1>4. CASE MoveFails(c)
  <2>1. /\ UNCHANGED <<file, lost, ask, server>> /\ torn' = (torn \/ calls[c].saw)
        /\ Goto(c, "cleanup") /\ "cleanup" \in PCs
    BY <1>4 DEF MoveFails, Fail, disk, PCs, Working, Holding
  <2>2. /\ calls'[c].pc = "cleanup"
        /\ \A d \in Calls \ {c} : calls'[d] = calls[d]
    BY <2>1, GotoPost
  <2>3. Device' \in {Device, "lost"}
    BY <2>1, <2>2 DEF Device, At
  <2> QED  BY <2>1, <2>3 DEF Local, Unasked
<1>5. CASE Persist(c)
  <2>1. /\ UNCHANGED <<file, history, server>> /\ calls[c].pc = "persist"
        /\ calls' = [d \in Calls |-> IF d \in {c} \cup Joined THEN NoCall ELSE calls[d]]
        /\ ask' \in {ask, "out"}
    BY <1>5 DEF Persist, Settle, At, disk, Confirm
  <2>2. UNCHANGED Device
    <3>1. \A d \in Calls : (calls[d].pc = "move" /\ calls[d].saw) <=> (calls'[d].pc = "move" /\ calls'[d].saw)
      BY <2>1 DEF Joined, At, NoCall
    <3> QED  BY <2>1, <3>1 DEF Device, At, history
  <2>3. Vouched
    BY <2>1 DEF Vouched, At
  <2> QED  BY <2>1, <2>2, <2>3 DEF Local, Unasked, Promised
<1> QED  BY <1>1, <1>2, <1>3, <1>4, <1>5 DEF Promotes

LEMMA CrashLocal == Crash => Local
<1> SUFFICES ASSUME Crash PROVE Local
  OBVIOUS
<1>1. /\ UNCHANGED <<file, server, lost>> /\ ask' = "off"
      /\ torn' = (torn \/ \E c \in Calls : At(c, "move") /\ calls[c].saw)
      /\ \A c \in Calls : calls'[c].pc # "move"
  BY DEF Crash, Launch, NoCall
<1>2. Device' \in {Device, "lost"}
  BY <1>1 DEF Device, At
<1> QED  BY <1>1, <1>2 DEF Local, Dropped

\* The server's own steps.
LEMMA ServerAllowed ==
    ASSUME UNCHANGED Device, Evict \/ RecoveryResets \/ ServeAsk
    PROVE  Archive!Next
<1>1. CASE Evict
  BY <1>1 DEF Evict, Archive!Next, Archive!Evict
<1>2. CASE RecoveryResets
  BY <1>2 DEF RecoveryResets, Archive!Next, Archive!Reset
<1>3. CASE ServeAsk
  BY <1>3 DEF ServeAsk, Archive!Next, Archive!Confirm
<1> QED  BY <1>1, <1>2, <1>3

LEMMA ArchiveStep ==
    ASSUME StateOK, Kept, [Next]_vars
    PROVE  [Archive!Next]_(Archive!vars)
<1> USE DEF StateOK
<1>1. CASE Undisturbed /\ UNCHANGED <<file, lost, torn, server, ask>>
  BY <1>1, DeviceStays, LocalAllowed DEF Local, Unasked
<1>2. ASSUME NEW c \in Calls, Promotes(c) PROVE [Archive!Next]_(Archive!vars)
  BY <1>2, PromotionLocal, LocalAllowed
<1>3. CASE Crash
  BY <1>3, CrashLocal, LocalAllowed
<1>4. CASE Undisturbed /\ lost' /\ file' \in {"none", file} /\ UNCHANGED <<server, ask>>
  BY <1>4, DeviceGoes, LocalAllowed DEF Local, Unasked
<1>5. ASSUME NEW c \in Calls, CallSteps(c) \/ ReceivedAltered(c) \/ ExportCancelled(c),
             ~Promotes(c), Undisturbed
      PROVE  [Archive!Next]_(Archive!vars)
  BY <1>1, <1>5 DEF CallSteps, Promotes, Probed, Start, CleanStart, Received, ReceivedAltered,
        NotReceived, Interrupted, Verify, Cleanup, ExportCancelled, disk, history
<1>6. CASE Undisturbed /\ StaleSteps
  <2>1. CASE TeardownStarts
    BY <1>4, <1>6, <2>1 DEF TeardownStarts
  <2>2. CASE SweepFile
    BY <1>1, <1>4, <1>6, <2>2 DEF SweepFile, Kept, history
  <2> QED  BY <1>1, <1>6, <2>1, <2>2 DEF StaleSteps, SweepSteps, SweepLists, SweepTmp, SweepRows,
          SweepProbed, Hydrate, LibraryOpens, LibraryProbed, TeardownEnds, MetaStarts, MetaProbed,
          MetaMerges, disk, history
<1>7. CASE Undisturbed /\ ConfirmSteps
  <2>1. UNCHANGED <<file, lost, torn>>
    BY <1>7 DEF ConfirmSteps, ConfirmDrain, Evict, RecoveryResets, RecoveryClears,
          RecoverySignsIn, ServeAsk, AskResumes, AskLost, disk, history
  <2>2. UNCHANGED Device
    BY <1>7, <2>1, DeviceStays
  <2>3. CASE Evict \/ RecoveryResets \/ ServeAsk
    BY <2>2, <2>3, ServerAllowed
  <2>4. CASE ConfirmDrain
    BY <2>2, <2>4, LocalAllowed DEF ConfirmDrain, Local, Promised, Vouched
  <2>5. CASE RecoveryClears \/ RecoverySignsIn \/ AskResumes
    BY <2>2, <2>5, LocalAllowed
       DEF RecoveryClears, RecoverySignsIn, AskResumes, Local, Unasked
  <2>6. CASE AskLost
    BY <2>2, <2>6, LocalAllowed DEF AskLost, Local, Dropped
  <2> QED  BY <1>7, <2>3, <2>4, <2>5, <2>6 DEF ConfirmSteps
<1>8. CASE Undisturbed /\ LoseFile
  BY <1>4, <1>8 DEF LoseFile
<1>9. CASE /\ Undisturbed
            /\ \/ \E s \in Screens : ScreenSteps(s)
               \/ OtherStarts \/ OtherQueues \/ OtherEnds \/ StrayWrites \/ Export \/ DrainStarts
               \/ DrainAsked \/ DrainEnds \/ UNCHANGED vars
  BY <1>1, <1>9 DEF ScreenSteps, Mount, Render, Unmount, Retry, ImageFails, OtherStarts,
        OtherQueues, OtherEnds, StrayWrites, Export, DrainStarts, DrainAsked, DrainEnds, vars,
        disk, history
<1>10. Crash \/ Undisturbed \/ \E c \in Calls : Promotes(c)
  BY Undisturbs
<1> QED  BY <1>2, <1>3, <1>5, <1>6, <1>7, <1>8, <1>9, <1>10 DEF Next

\* Downloads, recoveries of stale rows, confirmations and crashes together do what the archive
\* protocol promises of one device: no step of theirs takes a copy away without the loss being
\* known, and none confirms a photo the device never had whole.
THEOREM ArchivedPhotoImplemented == Spec => ImplementsArchivedPhoto
<1>1. Init => Archive!Init
  <2> SUFFICES ASSUME Init PROVE Archive!Init
    OBVIOUS
  <2>1. Device = "never" /\ (ask = "out") = FALSE /\ blob = "kept" /\ archived = FALSE
    BY DEF Init, Device, At, NoCall
  <2> QED  BY <2>1 DEF Archive!Init
<1>2. StateOK /\ Kept /\ [Next]_vars => [Archive!Next]_(Archive!vars)
  BY ArchiveStep
<1>3. Spec => []StateOK /\ []Kept
  BY InitState, StateStep, KeptInit, KeptStep, PTL DEF Spec
<1>4. Spec => Archive!Spec
  BY <1>1, <1>2, <1>3, PTL DEF Spec, Archive!Spec
<1> QED  BY <1>4 DEF ImplementsArchivedPhoto

\* The protocol keeps its promise by itself: who has confirmed, or is about to, has had the
\* photo, and only what was confirmed is dropped.
THEOREM ArchiveBacked == Archive!Spec => []Archive!Backed
<1> DEFINE Sure == (ask = "out") \/ archived \/ blob = "gone" => Device # "never"
<1>1. Archive!Init => Sure
  BY DEF Archive!Init
<1>2. Sure /\ [Archive!Next]_(Archive!vars) => Sure'
  <2> SUFFICES ASSUME Sure, [Archive!Next]_(Archive!vars) PROVE Sure'
    OBVIOUS
  <2>1. CASE Archive!Hold
    BY <2>1 DEF Archive!Hold
  <2>2. CASE Archive!Lose
    BY <2>2 DEF Archive!Lose
  <2>3. CASE Archive!Ask
    BY <2>3 DEF Archive!Ask
  <2>4. CASE Archive!Confirm
    BY <2>4 DEF Archive!Confirm
  <2>5. CASE Archive!Drop
    BY <2>5 DEF Archive!Drop
  <2>6. CASE Archive!Reset
    BY <2>6 DEF Archive!Reset
  <2>7. CASE Archive!Evict
    BY <2>7 DEF Archive!Evict
  <2>8. CASE UNCHANGED Archive!vars
    BY <2>8 DEF Archive!vars
  <2> QED  BY <2>1, <2>2, <2>3, <2>4, <2>5, <2>6, <2>7, <2>8 DEF Archive!Next
<1>3. Sure => Archive!Backed
  BY DEF Archive!Backed
<1> QED  BY <1>1, <1>2, <1>3, PTL DEF Archive!Spec
-----------------------------------------------------------------------------
(* The queue of the semaphore, and how far the calls are from their end.    *)

\* Nobody queues for a slot that is free, and a queued call waits for a download of other media
\* that holds one and will hand it over: no wakeup of the semaphore is lost.
QueueServed ==
    /\ Queued \/ waiting > 0 => active = MAX_CONCURRENT
    /\ Queued => others > 0

Full == Queued \/ waiting > 0 => active = MAX_CONCURRENT

\* Who begins or goes on past the join queues only when no slot is free.
LEMMA AcquireFull ==
    ASSUME CallsOK, Full, NEW c \in Calls, NEW cs \in [Calls -> CallType],
           \A d \in Calls : cs[d].pc = calls[d].pc, NEW call \in CallType, Acquire(c, cs, call)
    PROVE  Full'
<1>1. CASE inflight # None
  <2>1. UNCHANGED <<active, waiting>> /\ calls' = [cs EXCEPT ![c] = [call EXCEPT !.pc = "joined"]]
    BY <1>1 DEF Acquire, AcquireSlot, slots
  <2>2. Queued' => Queued
    BY <2>1 DEF Queued, CallType
  <2> QED  BY <2>1, <2>2 DEF Full
<1>2. CASE inflight = None /\ active < MAX_CONCURRENT
  <2>1. /\ ~Queued /\ waiting = 0
    BY <1>2, BoundsAssumption DEF Full, CallsOK
  <2>2. waiting' = waiting /\ calls' = [cs EXCEPT ![c] = [call EXCEPT !.pc = "granted"]]
    BY <1>2 DEF Acquire, AcquireSlot, CallsOK
  <2>3. ~Queued'
    BY <2>1, <2>2 DEF Queued, CallType
  <2> QED  BY <2>1, <2>2, <2>3 DEF Full
<1>3. CASE inflight = None /\ active = MAX_CONCURRENT
  BY <1>3, BoundsAssumption DEF Acquire, AcquireSlot, CallsOK, Full
<1>4. active <= MAX_CONCURRENT /\ active \in Nat /\ MAX_CONCURRENT \in Nat
  BY BoundsAssumption DEF CallsOK
<1> QED  BY <1>1, <1>2, <1>3, <1>4

LEMMA BeginFull ==
    ASSUME CallsOK, Full, NEW c \in Calls, NEW cs \in [Calls -> CallType],
           \A d \in Calls : cs[d].pc = calls[d].pc,
           NEW by \in Screens \cup {None, "drain", "export"}, Begin(c, cs, by)
    PROVE  Full'
<1> DEFINE call == [NoCall EXCEPT !.by = by]
<1>1. call \in CallType /\ NoCall \in CallType
  BY DEF CallType, NoCall
<1>2. CASE Acquire(c, cs, call)
  BY <1>1, <1>2, AcquireFull
<1>3. CASE UNCHANGED slots
           /\ calls' = [cs EXCEPT ![c] = [call EXCEPT !.pc = "probing", !.saw = Deleted \/ file # "none"]]
  <2>1. Queued' => Queued
    BY <1>1, <1>3 DEF Queued, CallType, Deleted
  <2> QED  BY <1>3, <2>1 DEF Full, slots
<1> QED  BY <1>2, <1>3 DEF Begin

\* No step queues anyone unless it leaves every slot taken.
LEMMA FullStep ==
    ASSUME CallsOK, ScreensOK, Full, [Next]_vars
    PROVE  Full'
<1>0. calls \in [Calls -> CallType] /\ MAX_CONCURRENT \in Nat /\ active \in 0..MAX_CONCURRENT
      /\ waiting \in Nat
  BY BoundsAssumption DEF CallsOK
<1>a. ASSUME UNCHANGED slots, \A c \in Calls : calls'[c].pc = "queued" => calls[c].pc = "queued"
      PROVE  Full'
  BY <1>a DEF Full, Queued, slots
<1>1. ASSUME NEW c \in Calls,
             \/ Start(c) \/ Received(c) \/ ReceivedAltered(c) \/ NotReceived(c) \/ Interrupted(c)
             \/ Verify(c) \/ Decrypt(c) \/ Move(c) \/ MoveFails(c)
      PROVE  Full'
  <2>1. UNCHANGED slots /\ \E pc \in PCs \ {"queued"} : Goto(c, pc)
    BY <1>1 DEF Start, Received, ReceivedAltered, NotReceived, Interrupted, Verify, Decrypt, Move,
                MoveFails, Fail, PCs, Working, Holding
  <2> QED  BY <2>1, <1>a, GotoPost
<1>2. ASSUME NEW c \in Calls, Promote(c) PROVE Full'
  <2>1. UNCHANGED slots /\ calls' = [calls EXCEPT ![c].pc = "move", ![c].saw = file # "none"]
    BY <1>2 DEF Promote
  <2> QED  BY <2>1, <1>a, <1>0 DEF CallType
<1>3. ASSUME NEW c \in Calls, Persist(c) \/ Cleanup(c) PROVE Full'
  <2>1. Released /\ calls' = [d \in Calls |-> IF d \in {c} \cup Joined THEN NoCall ELSE calls[d]]
    BY <1>3 DEF Persist, Cleanup, Settle
  <2>2. calls[c].pc \in Working
    BY <1>3 DEF Persist, Cleanup, At, Working, Holding
  <2>3. \A d \in Calls : d # c => calls[d].pc \notin Working
    BY <2>2, NamesAssumption DEF CallsOK, OneDownload
  <2>4. ~Queued'
    BY <2>1, <2>3 DEF Queued, Working, NoCall
  <2>5. waiting' > 0 => active' = active /\ waiting > 0
    BY <2>1, <1>0 DEF Released
  <2> QED  BY <2>4, <2>5 DEF Full
<1>4. ASSUME NEW c \in Calls, Probed(c) PROVE Full'
  <2>1. CASE Resumed(c)
    BY <1>0, <1>4, <2>1, AcquireFull DEF Resumed
  <2>2. CASE Settle(calls, {c}, FALSE) /\ UNCHANGED slots
    <3>1. calls' = [d \in Calls |-> IF d = c THEN NoCall ELSE calls[d]]
      BY <2>2 DEF Settle
    <3> QED  BY <3>1, <2>2, <1>a DEF NoCall
  <2> QED  BY <1>4, <2>1, <2>2 DEF Probed
<1>5. ASSUME NEW c \in Calls, ExportCancelled(c) PROVE Full'
  BY <1>5, <1>a, AbortPost DEF ExportCancelled
<1>6. ASSUME NEW s \in Screens, NEW view, Effect(s, view) PROVE Full'
  <2>1. CASE UNCHANGED <<calls, slots>>
    BY <2>1, <1>a
  <2>2. CASE \E c \in Idle : Begin(c, calls, s)
    BY <2>2, <1>0, IdleCall, BeginFull
  <2> QED  BY <1>6, <2>1, <2>2 DEF Effect
<1>7. ASSUME NEW s \in Screens, Retry(s) PROVE Full'
  <2>1. screens[s].ref \in Calls \cup {None}
    BY DEF ScreensOK, ScreenType
  <2>2. PICK c \in Idle : Begin(c, Abort(screens[s].ref), None)
    BY <1>7 DEF Retry
  <2> QED  BY <2>1, <2>2, IdleCall, AbortPost, BeginFull
<1>8. ASSUME NEW s \in Screens, Unmount(s) PROVE Full'
  <2>1. UNCHANGED slots /\ \A d \in Calls : calls'[d].pc = calls[d].pc
    BY <1>8, UnmountPcs
  <2> QED  BY <2>1, <1>a
<1>9. CASE Export \/ DrainStarts \/ DrainEnds
  <2>1. CASE UNCHANGED <<calls, slots>>
    BY <2>1, <1>a
  <2>2. CASE \E c \in Idle : Begin(c, calls, "drain") \/ Begin(c, calls, "export")
    BY <2>2, <1>0, IdleCall, BeginFull
  <2> QED  BY <1>9, <2>1, <2>2 DEF Export, DrainStarts, DrainEnds, TakeBatch
<1>10. CASE OtherStarts \/ OtherQueues
  BY <1>0, <1>10 DEF OtherStarts, OtherQueues, Full, Queued
<1>11. CASE OtherEnds
  <2>1. CASE UNCHANGED <<active, calls>> /\ waiting > 0
    BY <2>1 DEF Full
  <2>2. CASE waiting = 0 /\ Queued
    <3>1. waiting' = 0 /\ calls' = [c \in Calls |->
            IF calls[c].pc = "queued" THEN [calls[c] EXCEPT !.pc = "granted"] ELSE calls[c]]
      BY <1>11, <2>2 DEF OtherEnds
    <3> QED  BY <3>1, <1>0 DEF Full, Queued, CallType
  <2>3. CASE waiting = 0 /\ ~Queued /\ UNCHANGED <<calls, waiting>>
    BY <2>3 DEF Full, Queued
  <2> QED  BY <1>11, <2>1, <2>2, <2>3 DEF OtherEnds
<1>12. CASE Crash
  BY <1>12 DEF Crash, Launch, Full, Queued, NoCall
<1>13. CASE UNCHANGED <<calls, inflight, slots>>
  BY <1>13, <1>a
<1>14. CASE \E c \in Calls : CallSteps(c) \/ ReceivedAltered(c) \/ ExportCancelled(c)
  BY <1>14, <1>1, <1>2, <1>3, <1>4, <1>5 DEF CallSteps
<1>15. CASE \E s \in Screens : Mount(s) \/ Render(s) \/ Unmount(s) \/ Retry(s)
  BY <1>15, <1>6, <1>7, <1>8 DEF Mount, Render
<1> QED
  BY <1>9, <1>10, <1>11, <1>12, <1>13, <1>14, <1>15, QuietCalls DEF Next, ScreenSteps

\* However calls begin, join, end and die, and other downloads come and go, whoever queues for a
\* slot queues behind as many downloads as there are slots, and one of them is not this photo's.
THEOREM QueueServedAlways == Spec => []QueueServed
<1>1. Init => Full
  BY DEF Init, Full, Queued, NoCall
<1>2. CallsOK /\ ScreensOK /\ Full /\ [Next]_vars => Full'
  BY FullStep
<1>3. StateOK /\ Full => QueueServed
  <2> SUFFICES ASSUME StateOK, Full, Queued PROVE others > 0
    BY DEF Full, QueueServed
  <2>1. PICK c \in Calls : calls[c].pc = "queued"
    BY DEF Queued
  <2>2. CallsOK /\ OneDownload
    BY DEF StateOK, CallsOK
  <2>3. \A d \in Calls : calls[d].pc \notin Holding
    BY <2>1, <2>2, NamesAssumption DEF OneDownload, Working, Holding
  <2>4. active = MAX_CONCURRENT /\ active = others + 0
    BY <2>2, <2>3 DEF OneDownload, Full
  <2> QED  BY <2>2, <2>4, BoundsAssumption DEF CallsOK
<1> QED  BY <1>1, <1>2, <1>3, InitState, StateStep, PTL DEF Spec, StateOK
\* How far a call is from its end.
Stage ==
    [pc \in PCs |->
        CASE pc = "idle" -> 0     [] pc = "joined" -> 1    [] pc = "cleanup" -> 1
          [] pc = "persist" -> 2  [] pc = "move" -> 3      [] pc = "promote" -> 4
          [] pc = "decrypt" -> 5  [] pc = "verify" -> 6    [] pc = "transfer" -> 7
          [] pc = "granted" -> 8  [] pc = "queued" -> 9    [] OTHER -> 10]

Left(c) == Stage[calls[c].pc]

\* Every step of a call, its failures included, brings it nearer to its end, and no other step
\* sends back one that runs; a call that others have joined is not replaced under them.
CallsRunDown ==
    [][/\ \A c \in Calls :
             /\ CallSteps(c) \/ ReceivedAltered(c) => Left(c)' < Left(c)
             /\ ~At(c, "idle") => Left(c)' <= Left(c)
       /\ Joined # {} => inflight' = inflight \/ Joined' = {}]_vars

LEMMA Stages ==
    /\ \A pc \in PCs : Stage[pc] \in Nat
    /\ Stage["idle"] = 0 /\ Stage["joined"] = 1 /\ Stage["cleanup"] = 1 /\ Stage["persist"] = 2
    /\ Stage["move"] = 3 /\ Stage["promote"] = 4 /\ Stage["decrypt"] = 5 /\ Stage["verify"] = 6
    /\ Stage["transfer"] = 7 /\ Stage["granted"] = 8 /\ Stage["queued"] = 9
    /\ Stage["probing"] = 10
    /\ \A pc \in PCs \ {"idle"} : Stage[pc] > 0
BY DEF Stage, PCs, Working, Holding

\* A running call is not sent back.
Onward == \A d \in Calls : calls[d].pc # "idle" => Stage[calls'[d].pc] <= Stage[calls[d].pc]
Nearer(c) == Stage[calls'[c].pc] < Stage[calls[c].pc]

LEMMA CallPcs == CallsOK => \A c \in Calls : calls[c].pc \in PCs
BY DEF CallsOK, CallType, PCs, Working, Holding

\* Who goes on alone: the others stay where they are.
LEMMA Alone ==
    ASSUME CallsOK, NEW c \in Calls, \A d \in Calls \ {c} : calls'[d].pc = calls[d].pc,
           calls[c].pc = "idle" \/ Nearer(c), CallsOK'
    PROVE  Onward
<1>1. \A d \in Calls : Stage[calls[d].pc] \in Nat /\ Stage[calls'[d].pc] \in Nat
  <2>1. \A d \in Calls : calls'[d].pc \in PCs
    BY DEF CallsOK, CallType, PCs, Working, Holding
  <2> QED  BY <2>1, CallPcs, Stages
<1> QED  BY <1>1 DEF Onward, Nearer

\* The join or the queue of the semaphore are nearer to the end than the cache check.
LEMMA AcquireAlone ==
    ASSUME NEW c \in Calls, NEW cs \in [Calls -> CallType], NEW call \in CallType,
           \A d \in Calls : cs[d].pc = calls[d].pc, Acquire(c, cs, call)
    PROVE  /\ calls'[c].pc \in {"joined", "queued", "granted"}
           /\ \A d \in Calls \ {c} : calls'[d].pc = calls[d].pc
<1>1. PICK pc \in {"joined", "queued", "granted"} : calls' = [cs EXCEPT ![c] = [call EXCEPT !.pc = pc]]
  BY DEF Acquire, AcquireSlot
<1> QED  BY <1>1 DEF CallType

LEMMA BeginAlone ==
    ASSUME CallsOK, NEW c \in Idle, NEW cs \in [Calls -> CallType],
           \A d \in Calls : cs[d].pc = calls[d].pc /\ cs[d].saw = calls[d].saw,
           NEW by \in Screens \cup {None, "drain", "export"}, Begin(c, cs, by)
    PROVE  Onward
<1> DEFINE call == [NoCall EXCEPT !.by = by]
<1>1. call \in CallType /\ NoCall \in CallType /\ c \in Calls /\ calls[c].pc = "idle"
  BY IdleCall DEF CallType, NoCall
<1>2. CallsOK'
  BY <1>1, BeginPost
<1>3. \A d \in Calls \ {c} : calls'[d].pc = calls[d].pc
  <2>1. CASE Acquire(c, cs, call)
    BY <1>1, <2>1, AcquireAlone
  <2>2. CASE calls' = [cs EXCEPT ![c] = [call EXCEPT !.pc = "probing", !.saw = Deleted \/ file # "none"]]
    BY <2>2
  <2> QED  BY <2>1, <2>2 DEF Begin
<1> QED  BY <1>1, <1>2, <1>3, Alone

\* The steps of a call bring it nearer to its end and send nobody back.
LEMMA CallNears ==
    ASSUME CallsOK, CallsOK', NEW c \in Calls, CallSteps(c) \/ ReceivedAltered(c)
    PROVE  Nearer(c) /\ Onward
<1>0. calls \in [Calls -> CallType]
  BY DEF CallsOK
<1>1. CASE Probed(c)
  <2>1. calls[c].pc = "probing"
    BY <1>1 DEF Probed
  <2>2. /\ calls'[c].pc \in {"idle", "joined", "queued", "granted"}
        /\ \A d \in Calls \ {c} : calls'[d].pc = calls[d].pc
    <3>1. CASE Resumed(c)
      BY <3>1, <1>0, AcquireAlone DEF Resumed
    <3>2. CASE Settle(calls, {c}, FALSE)
      BY <3>2 DEF Settle, NoCall
    <3> QED  BY <1>1, <3>1, <3>2 DEF Probed
  <2>3. Nearer(c)
    BY <2>1, <2>2, Stages DEF Nearer
  <2> QED  BY <2>2, <2>3, Alone
<1>2. CASE Persist(c) \/ Cleanup(c)
  <2>1. calls' = [d \in Calls |-> IF d \in {c} \cup Joined THEN NoCall ELSE calls[d]]
    BY <1>2 DEF Persist, Cleanup, Settle
  <2>2. calls[c].pc \in {"persist", "cleanup"}
    BY <1>2 DEF Persist, Cleanup, At
  <2>3. Nearer(c)
    BY <2>1, <2>2, Stages DEF Nearer, NoCall
  <2>4. \A d \in Calls : calls'[d].pc = "idle" \/ calls'[d].pc = calls[d].pc
    BY <2>1 DEF NoCall
  <2>5. \A d \in Calls : Stage[calls[d].pc] \in Nat
    BY CallPcs, Stages
  <2> QED  BY <2>3, <2>4, <2>5, Stages DEF Onward
<1>3. CASE Promote(c)
  <2>1. calls' = [calls EXCEPT ![c].pc = "move", ![c].saw = file # "none"] /\ calls[c].pc = "promote"
    BY <1>3 DEF Promote, At
  <2>2. calls'[c].pc = "move" /\ \A d \in Calls \ {c} : calls'[d].pc = calls[d].pc
    BY <2>1, <1>0 DEF CallType
  <2>3. Nearer(c)
    BY <2>1, <2>2, Stages DEF Nearer
  <2> QED  BY <2>2, <2>3, Alone
<1>4. ASSUME NEW pc \in PCs, Goto(c, pc), Stage[pc] < Stage[calls[c].pc]
      PROVE  Nearer(c) /\ Onward
  <2>1. calls'[c].pc = pc /\ \A d \in Calls \ {c} : calls'[d].pc = calls[d].pc
    BY <1>4, GotoPost
  <2>2. Nearer(c)
    BY <1>4, <2>1 DEF Nearer
  <2> QED  BY <2>1, <2>2, Alone
<1>5. {"transfer", "verify", "decrypt", "promote", "persist", "cleanup"} \subseteq PCs
  BY DEF PCs, Working, Holding
<1>6. CASE Start(c)
  BY <1>4, <1>5, <1>6, Stages DEF Start, At, Fail
<1>7. CASE Received(c) \/ ReceivedAltered(c) \/ NotReceived(c)
  BY <1>4, <1>5, <1>7, Stages DEF Received, ReceivedAltered, NotReceived, At, Fail
<1>8. CASE Interrupted(c) \/ Verify(c)
  BY <1>4, <1>5, <1>8, Stages DEF Interrupted, Verify, At, Fail
<1>9. CASE Decrypt(c)
  BY <1>4, <1>5, <1>9, Stages DEF Decrypt, At, Fail
<1>10. CASE Move(c) \/ MoveFails(c)
  BY <1>4, <1>5, <1>10, Stages DEF Move, MoveFails, At, Fail
<1> QED  BY <1>1, <1>2, <1>3, <1>6, <1>7, <1>8, <1>9, <1>10 DEF CallSteps

\* Nobody else's steps send a call back.
LEMMA StepOnward ==
    ASSUME CallsOK, CallsOK', ScreensOK, [Next]_vars
    PROVE  Onward
<1>0. calls \in [Calls -> CallType] /\ \A d \in Calls : Stage[calls[d].pc] \in Nat
  BY CallPcs, Stages DEF CallsOK
<1>a. ASSUME \A d \in Calls : calls'[d].pc = calls[d].pc PROVE Onward
  BY <1>a, <1>0 DEF Onward
<1>1. ASSUME NEW c \in Calls, ExportCancelled(c) PROVE Onward
  BY <1>1, <1>a, AbortPost DEF ExportCancelled
<1>2. ASSUME NEW s \in Screens, NEW view, Effect(s, view) PROVE Onward
  <2>1. CASE UNCHANGED calls
    BY <2>1, <1>a
  <2>2. CASE \E c \in Idle : Begin(c, calls, s)
    BY <2>2, <1>0, BeginAlone
  <2> QED  BY <1>2, <2>1, <2>2 DEF Effect
<1>3. ASSUME NEW s \in Screens, Retry(s) PROVE Onward
  <2>1. screens[s].ref \in Calls \cup {None}
    BY DEF ScreensOK, ScreenType
  <2>2. PICK c \in Idle : Begin(c, Abort(screens[s].ref), None)
    BY <1>3 DEF Retry
  <2> QED  BY <2>1, <2>2, AbortPost, BeginAlone
<1>4. ASSUME NEW s \in Screens, Unmount(s) PROVE Onward
  BY <1>4, <1>a, UnmountPcs
<1>5. CASE Export \/ DrainStarts \/ DrainEnds
  <2>1. CASE UNCHANGED calls
    BY <2>1, <1>a
  <2>2. CASE \E c \in Idle : Begin(c, calls, "drain") \/ Begin(c, calls, "export")
    BY <2>2, <1>0, BeginAlone
  <2> QED  BY <1>5, <2>1, <2>2 DEF Export, DrainStarts, DrainEnds, TakeBatch
<1>6. CASE OtherStarts \/ OtherQueues \/ OtherEnds
  <2>1. CASE UNCHANGED calls
    BY <2>1, <1>a
  <2>2. CASE calls' = [c \in Calls |->
               IF calls[c].pc = "queued" THEN [calls[c] EXCEPT !.pc = "granted"] ELSE calls[c]]
    <3>1. \A d \in Calls : \/ calls'[d].pc = calls[d].pc
                           \/ calls[d].pc = "queued" /\ calls'[d].pc = "granted"
      BY <2>2, <1>0 DEF CallType
    <3> QED  BY <3>1, <1>0, Stages DEF Onward
  <2> QED  BY <1>6, <2>1, <2>2 DEF OtherStarts, OtherQueues, OtherEnds
<1>7. CASE Crash
  <2>1. \A d \in Calls : calls'[d].pc = "idle"
    BY <1>7 DEF Crash, Launch, NoCall
  <2> QED  BY <2>1, <1>0, Stages DEF Onward
<1>8. CASE UNCHANGED <<calls, inflight, slots>>
  BY <1>8, <1>a
<1>9. CASE \E c \in Calls : CallSteps(c) \/ ReceivedAltered(c) \/ ExportCancelled(c)
  BY <1>9, <1>1, CallNears
<1>10. CASE \E s \in Screens : Mount(s) \/ Render(s) \/ Unmount(s) \/ Retry(s)
  BY <1>10, <1>2, <1>3, <1>4 DEF Mount, Render
<1> QED
  BY <1>5, <1>6, <1>7, <1>8, <1>9, <1>10, QuietCalls DEF Next, ScreenSteps

\* The map of downloads in flight gives an entry up, and never replaces it.
LEMMA InflightStays ==
    ASSUME inflight # None, [Next]_vars
    PROVE  inflight' \in {inflight, None}
<1>1. ASSUME NEW c, NEW cs, NEW by, Begin(c, cs, by) PROVE inflight' = inflight
  BY <1>1 DEF Begin, Acquire
<1>2. CASE \E c \in Calls : CallSteps(c) \/ ReceivedAltered(c) \/ ExportCancelled(c)
  <2>1. PICK c \in Calls : CallSteps(c) \/ ReceivedAltered(c) \/ ExportCancelled(c)
    BY <1>2
  <2>2. CASE Probed(c)
    BY <2>2 DEF Probed, Resumed, Acquire
  <2>3. CASE ~Probed(c)
    BY <2>1, <2>3 DEF CallSteps, Start, Received, ReceivedAltered, NotReceived, Interrupted, Verify,
       Decrypt, Promote, Move, MoveFails, Persist, Cleanup, ExportCancelled
  <2> QED  BY <2>2, <2>3
<1>3. CASE \E s \in Screens : Mount(s) \/ Render(s) \/ Unmount(s) \/ Retry(s)
  <2>1. ASSUME NEW s, NEW view, Effect(s, view) PROVE inflight' = inflight
    BY <1>1, <2>1 DEF Effect
  <2> QED  BY <1>1, <1>3, <2>1 DEF Mount, Render, Unmount, Retry
<1>4. CASE Export \/ DrainStarts \/ DrainEnds
  BY <1>1, <1>4 DEF Export, DrainStarts, DrainEnds, TakeBatch
<1>5. CASE OtherStarts \/ OtherQueues \/ OtherEnds \/ Crash
  BY <1>5 DEF OtherStarts, OtherQueues, OtherEnds, Crash, Launch
<1>6. CASE UNCHANGED <<calls, inflight, slots>>
  BY <1>6
<1> QED  BY <1>2, <1>3, <1>4, <1>5, <1>6, QuietCalls DEF Next, ScreenSteps

\* The safety half of Settles: with the steps of the calls and of the other downloads fair, a call
\* that begins ends, and so does everybody who has joined it; no interleaving of views, drains,
\* exports and crashes holds it up or takes its place.
THEOREM CallsRunDownAlways == Spec => CallsRunDown
<1> DEFINE Runs ==
      /\ \A c \in Calls :
           /\ CallSteps(c) \/ ReceivedAltered(c) => Left(c)' < Left(c)
           /\ ~At(c, "idle") => Left(c)' <= Left(c)
      /\ Joined # {} => inflight' = inflight \/ Joined' = {}
<1>1. StateOK /\ StateOK' /\ [Next]_vars => Runs
  <2> SUFFICES ASSUME StateOK, StateOK', [Next]_vars PROVE Runs
    OBVIOUS
  <2>1. CallsOK /\ CallsOK' /\ ScreensOK
    BY DEF StateOK
  <2>2. Onward /\ \A c \in Calls : CallSteps(c) \/ ReceivedAltered(c) => Nearer(c)
    BY <2>1, StepOnward, CallNears
  <2>3. Joined # {} => inflight # None
    BY <2>1 DEF CallsOK, OneDownload
  <2>4. inflight' = None => Joined' = {}
    BY <2>1 DEF CallsOK, OneDownload
  <2> QED  BY <2>2, <2>3, <2>4, InflightStays DEF Onward, Nearer, Left, At
<1>2. Spec => [][Runs]_vars
  <2> HIDE DEF Runs
  <2>1. StateOK /\ StateOK' /\ [Next]_vars => [Runs]_vars
    BY <1>1
  <2> QED  BY <2>1, InitState, StateStep, PTL DEF Spec
<1> QED  BY <1>2 DEF CallsRunDown
=============================================================================
