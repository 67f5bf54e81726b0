---------------------------- MODULE MediaDownload ----------------------------
(***************************************************************************)
(* One received photo: its row, its files, its entry in the store, and     *)
(* everything that downloads, recovers, confirms or loses it               *)
(* (src/src/services/mediaDownloadService.ts, mediaPrefetchService.ts,     *)
(* mediaArchiveConfirmService.ts and src/src/hooks/useMediaDownload.ts).   *)
(*                                                                         *)
(* A call is one run of downloadAndDecryptMedia; the first of those in     *)
(* flight at a time does the work and the others join it.  Downloads of    *)
(* other media are there only as the slots of the semaphore they hold or   *)
(* wait for.                                                               *)
(***************************************************************************)
EXTENDS Integers

CONSTANTS
    Calls,        \* names for the calls in flight at one time
    Screens,      \* names for the mounted views of the photo
    Cancels,      \* those with cancelOnUnmount
    None,
    MAX_CONCURRENT,
    MaxWaiting,   \* bound on other media's downloads queued before this one
    MaxFaults,    \* bound on failures, losses, restarts and recoveries
    MaxVisits     \* bound on the views opened

ASSUME NamesAssumption ==
    /\ Cancels \subseteq Screens /\ None \notin Calls \cup Screens
    /\ {"drain", "export"} \cap (Screens \cup {None}) = {}
ASSUME BoundsAssumption ==
    /\ MAX_CONCURRENT \in Nat \ {0} /\ MaxWaiting \in Nat
    /\ MaxFaults \in Nat /\ MaxVisits \in Nat

VARIABLES
    row,       \* orbital_media: download_state, whether local_path is set, archive_confirmed;
               \* a deleted row has the state "deleted"
    file,      \* the photo at its final path
    tmp,       \* the plaintext being written, or one left by an earlier launch
    staged,    \* the ciphertext in the cache directory
    item,      \* downloadState of the store's entry, or absent
    blob,      \* whether the server still keeps the photo
    archived,  \* whether the server has this device's confirmation
    calls, inflight,
    active,    \* slots of the semaphore in use
    others, waiting,  \* other media's downloads: those that hold a slot, those queued
    screens,   \* per view: its refs, and what its effect last saw
    draining, rerun,  \* mediaPrefetchService
    sweep, library, meta,  \* cleanupOrphanedMedia, recoverStalePaths, processMediaMetadata
    ask,       \* archive-confirm, for a finished download or the confirm drain: one at a time
    recovery,  \* how far a key recovery is
    teardown,  \* teardownLocalMedia has still to remove the store's entry
    lost, torn,  \* history: the file was removed on purpose or from outside; a promotion gave
                 \* the old one up and did not bring the new one
    faults, visits

disk == <<file, tmp, staged>>
server == <<blob, archived>>
slots == <<active, others, waiting>>
prefetch == <<draining, rerun>>
tasks == <<sweep, library, meta, teardown>>
history == <<lost, torn>>
bounds == <<faults, visits>>
vars == <<row, disk, item, server, calls, inflight, slots, screens, prefetch, tasks, ask,
          recovery, history, bounds>>

States == {"pending", "downloading", "downloaded", "failed", "unavailable"}

NoCall == [pc |-> "idle", by |-> None, aborted |-> FALSE, saw |-> FALSE]
NoScreen == [up |-> FALSE, busy |-> FALSE, armed |-> FALSE, bump |-> FALSE, seen |-> FALSE, ref |-> None]
NoSweep == [at |-> "off", file |-> FALSE, tmp |-> FALSE]
NoProbe == [at |-> "off", saw |-> FALSE]
NoMeta == [at |-> "off", saw |-> FALSE, snap |-> "absent"]

\* What a launch finds in memory; cleanupOrphanedMedia runs in it.
Launch ==
    /\ item' = "absent" /\ calls' = [c \in Calls |-> NoCall] /\ inflight' = None
    /\ active' = 0 /\ others' = 0 /\ waiting' = 0
    /\ screens' = [s \in Screens |-> NoScreen]
    /\ draining' = FALSE /\ rerun' = FALSE
    /\ sweep' = [NoSweep EXCEPT !.at = "list"] /\ library' = NoProbe /\ meta' = NoMeta
    /\ teardown' = FALSE
    /\ ask' = "off"
    /\ recovery' = "off"

\* A photo that arrives in the running app.
Init ==
    /\ row = [state |-> "pending", path |-> FALSE, confirmed |-> FALSE]
    /\ file = "none" /\ tmp = "none" /\ staged = "none"
    /\ blob = "kept" /\ archived = FALSE
    /\ item = "absent" /\ calls = [c \in Calls |-> NoCall] /\ inflight = None
    /\ active = 0 /\ others = 0 /\ waiting = 0
    /\ screens = [s \in Screens |-> NoScreen]
    /\ draining = FALSE /\ rerun = FALSE
    /\ sweep = NoSweep /\ library = NoProbe /\ meta = NoMeta
    /\ teardown = FALSE
    /\ ask = "off"
    /\ recovery = "off"
    /\ lost = FALSE /\ torn = FALSE /\ faults = 0 /\ visits = 0

Fault == faults < MaxFaults /\ faults' = faults + 1 /\ UNCHANGED visits
Visit == visits < MaxVisits /\ visits' = visits + 1 /\ UNCHANGED faults

\* updateDownloadState writes a row that there is, updateMediaDownloadState an entry.
Deleted == row.state = "deleted"
RowState(state) == row' = IF Deleted THEN row ELSE [row EXCEPT !.state = state]
RowDownloaded == row' = IF Deleted THEN row ELSE [row EXCEPT !.state = "downloaded", !.path = TRUE]
RowConfirmed(flag) == row' = IF Deleted THEN row ELSE [row EXCEPT !.confirmed = flag]
ItemState(state) == item' = IF item = "absent" THEN item ELSE state

-----------------------------------------------------------------------------
(* A call: the cache check, the join and the semaphore.                     *)

\* The call becomes the one in flight and takes a slot, or queues for one.
AcquireSlot(c, cs, call) ==
    /\ inflight' = c /\ UNCHANGED <<others, waiting>>
    /\ \/ /\ active < MAX_CONCURRENT /\ active' = active + 1
          /\ calls' = [cs EXCEPT ![c] = [call EXCEPT !.pc = "granted"]]
       \/ /\ active = MAX_CONCURRENT /\ UNCHANGED active
          /\ calls' = [cs EXCEPT ![c] = [call EXCEPT !.pc = "queued"]]

\* Past the cache check: join the call in flight, or be it.
Acquire(c, cs, call) ==
    \/ /\ inflight # None /\ UNCHANGED <<inflight, slots>>
       /\ calls' = [cs EXCEPT ![c] = [call EXCEPT !.pc = "joined"]]
    \/ inflight = None /\ AcquireSlot(c, cs, call)

\* A row with a path is checked against the disk first; without a row there is no key
\* and the call ends as well.
Begin(c, cs, by) ==
    LET call == [NoCall EXCEPT !.by = by]
    IN \/ /\ row.path \/ Deleted
          /\ calls' = [cs EXCEPT ![c] = [call EXCEPT !.pc = "probing",
                          !.saw = Deleted \/ file # "none"]]
          /\ UNCHANGED <<inflight, slots>>
       \/ ~row.path /\ ~Deleted /\ Acquire(c, cs, call)

\* The promises of a set of calls settle: their views' callbacks run.
Settle(cs, ended, sentinel) ==
    /\ calls' = [c \in Calls |-> IF c \in ended THEN NoCall ELSE cs[c]]
    /\ screens' = [s \in Screens |->
          LET own == {c \in ended : cs[c].by = s}
              view == [screens[s] EXCEPT !.ref = IF @ \in ended THEN None ELSE @]
          IN IF own = {} THEN view
             ELSE [view EXCEPT !.busy = FALSE,
                               !.bump = @ \/ (sentinel /\ \E c \in own : ~cs[c].aborted)]]

\* Mutant of Resumed: the map was looked at before the cache check was awaited.
ResumedAlone(c) == AcquireSlot(c, calls, calls[c])

\* The map of downloads in flight is looked at after the cache check was awaited.
Resumed(c) == Acquire(c, calls, calls[c])

Probed(c) ==
    /\ calls[c].pc = "probing"
    /\ \/ /\ calls[c].saw /\ Settle(calls, {c}, FALSE) /\ UNCHANGED <<inflight, slots>>
       \/ ~calls[c].saw /\ Resumed(c) /\ UNCHANGED screens
    /\ UNCHANGED <<row, disk, item, server, prefetch, tasks, ask, recovery, history, bounds>>

\* release: the next in the queue takes the slot over.
Released ==
    \/ waiting > 0 /\ waiting' = waiting - 1 /\ others' = others + 1 /\ UNCHANGED active
    \/ waiting = 0 /\ active' = active - 1 /\ UNCHANGED <<others, waiting>>

Queued == \E c \in Calls : calls[c].pc = "queued"

OtherStarts ==
    /\ active < MAX_CONCURRENT /\ active' = active + 1 /\ others' = others + 1
    /\ UNCHANGED <<row, disk, item, server, calls, inflight, waiting, screens, prefetch, tasks,
                   ask, recovery, history, bounds>>

\* Those that queue behind this photo never hold it up and are left out.
OtherQueues ==
    /\ active = MAX_CONCURRENT /\ ~Queued /\ waiting < MaxWaiting /\ waiting' = waiting + 1
    /\ UNCHANGED <<row, disk, item, server, calls, inflight, active, others, screens, prefetch,
                   tasks, ask, recovery, history, bounds>>

OtherEnds ==
    /\ others > 0
    /\ \/ /\ waiting > 0 /\ waiting' = waiting - 1 /\ UNCHANGED <<active, others, calls>>
       \/ /\ waiting = 0 /\ Queued /\ others' = others - 1
          /\ calls' = [c \in Calls |->
                IF calls[c].pc = "queued" THEN [calls[c] EXCEPT !.pc = "granted"] ELSE calls[c]]
          /\ UNCHANGED <<active, waiting>>
       \/ /\ waiting = 0 /\ ~Queued /\ others' = others - 1 /\ active' = active - 1
          /\ UNCHANGED <<calls, waiting>>
    /\ UNCHANGED <<row, disk, item, server, inflight, screens, prefetch, tasks, ask, recovery,
                   history, bounds>>

-----------------------------------------------------------------------------
(* The download.                                                            *)

At(c, pc) == calls[c].pc = pc
Goto(c, pc) == calls' = [calls EXCEPT ![c].pc = pc]

\* Mutant of StateAfter: an aborted download is given a state of its own.
RawStateAfter(c, cause) ==
    IF calls[c].aborted THEN "aborted" ELSE IF cause = "missing" THEN "unavailable" ELSE "failed"

\* What a failed download leaves behind: an aborted one and one without space may
\* be tried again, one whose photo the server has purged may not.
StateAfter(c, cause) ==
    IF calls[c].aborted \/ cause = "space" THEN "pending"
    ELSE IF cause = "missing" THEN "unavailable" ELSE "failed"

Fail(c, cause) ==
    /\ RowState(StateAfter(c, cause)) /\ ItemState(StateAfter(c, cause))
    /\ Goto(c, "cleanup")

\* Mutant of CleanStart: the old photo is removed as well.
CleanStartOfAll == tmp' = "none" /\ staged' = "none" /\ file' = "none"

\* What an earlier attempt left at the two temporary paths is removed.
CleanStart == tmp' = "none" /\ staged' = "none" /\ UNCHANGED file

\* After the slot is granted: an aborted call goes no further.
Start(c) ==
    /\ At(c, "granted")
    /\ \/ calls[c].aborted /\ Fail(c, "abort") /\ UNCHANGED disk
       \/ /\ ~calls[c].aborted /\ RowState("downloading") /\ ItemState("downloading")
          /\ CleanStart /\ Goto(c, "transfer")
    /\ UNCHANGED <<server, inflight, slots, screens, prefetch, tasks, ask, recovery,
                   history, bounds>>

Received(c) ==
    /\ At(c, "transfer") /\ blob = "kept"
    /\ staged' = "whole" /\ Goto(c, "verify")
    /\ UNCHANGED <<row, file, tmp, item, server, inflight, slots, screens, prefetch, tasks, ask,
                   recovery, history, bounds>>

\* Damaged on the way, or cut short.
ReceivedAltered(c) ==
    /\ Fault /\ At(c, "transfer")
    /\ staged' = "altered" /\ Goto(c, "verify")
    /\ UNCHANGED <<row, file, tmp, item, server, inflight, slots, screens, prefetch, tasks, ask,
                   recovery, history>>

\* No space, no answer within the deadline, an error, or 404 for a purged photo.
NotReceived(c) ==
    /\ At(c, "transfer")
    /\ \/ Fault /\ \E cause \in {"space", "network"} : Fail(c, cause)
       \/ blob = "gone" /\ Fail(c, "missing") /\ UNCHANGED bounds
    /\ UNCHANGED <<disk, server, inflight, slots, screens, prefetch, tasks, ask, recovery, history>>

\* The signal is read during the transfer and between two chunks of either pass, where a
\* read of the ciphertext or an append to the plaintext may fail as well.
Interrupted(c) ==
    /\ calls[c].pc \in {"transfer", "verify", "decrypt"}
    /\ \/ calls[c].aborted /\ UNCHANGED bounds
       \/ calls[c].pc # "transfer" /\ Fault
    /\ Fail(c, "read")
    /\ UNCHANGED <<disk, server, inflight, slots, screens, prefetch, tasks, ask, recovery, history>>

\* Pass 1 accepts what the digest and the MAC fit; pass 2 then starts an empty file.
Verify(c) ==
    /\ At(c, "verify") /\ ~calls[c].aborted
    /\ \/ staged = "whole" /\ tmp' = "part" /\ Goto(c, "decrypt") /\ UNCHANGED <<row, item>>
       \/ staged # "whole" /\ Fail(c, "verify") /\ UNCHANGED tmp
    /\ UNCHANGED <<file, staged, server, inflight, slots, screens, prefetch, tasks, ask,
                   recovery, history, bounds>>

\* What pass 2 has written: a file removed under it holds only what came after.
Plaintext == IF tmp = "part" /\ staged = "whole" THEN "whole" ELSE "broken"

\* Mutant of Sound: what pass 2 wrote is not compared with anything.
SoundAnyway(text) == text # "none"

\* decryptFinalize compares the MAC with pass 1's, and the size of the file is
\* compared with the bytes emitted.
Sound(text) == text = "whole"

Decrypt(c) ==
    /\ At(c, "decrypt") /\ tmp' = Plaintext
    /\ \/ Sound(Plaintext) /\ Goto(c, "promote") /\ UNCHANGED <<row, item>>
       \/ ~Sound(Plaintext) /\ Fail(c, "size")
    /\ UNCHANGED <<file, staged, server, inflight, slots, screens, prefetch, tasks, ask,
                   recovery, history, bounds>>

\* The old file is removed, then the new one is moved into its place.
Promote(c) ==
    /\ At(c, "promote") /\ staged' = "none" /\ file' = "none"
    /\ calls' = [calls EXCEPT ![c].pc = "move", ![c].saw = file # "none"]
    /\ UNCHANGED <<row, tmp, item, server, inflight, slots, screens, prefetch, tasks, ask,
                   recovery, history, bounds>>

Move(c) ==
    /\ At(c, "move") /\ tmp # "none"
    /\ file' = tmp /\ tmp' = "none" /\ Goto(c, "persist")
    /\ UNCHANGED <<row, staged, item, server, inflight, slots, screens, prefetch, tasks, ask,
                   recovery, history, bounds>>

MoveFails(c) ==
    /\ At(c, "move")
    /\ Fault \/ (tmp = "none" /\ UNCHANGED bounds)
    /\ torn' = (torn \/ calls[c].saw) /\ Fail(c, "move")
    /\ UNCHANGED <<disk, server, inflight, slots, screens, prefetch, tasks, ask, recovery,
                   lost>>

\* confirmArchived: nothing is sent once the row is confirmed.
Confirm == ask' = IF ask = "off" /\ ~row'.confirmed THEN "out" ELSE ask

Joined == {c \in Calls : At(c, "joined")}

\* The row is written, or cannot be; the entry is updated and a confirmation asked
\* for all the same, the slot released and everybody served.
Persist(c) ==
    /\ At(c, "persist")
    /\ \/ RowDownloaded /\ UNCHANGED bounds
       \/ Fault /\ UNCHANGED row
    /\ ItemState("downloaded") /\ Confirm
    /\ inflight' = None /\ Released /\ Settle(calls, {c} \cup Joined, FALSE)
    /\ UNCHANGED <<disk, server, prefetch, tasks, recovery, history>>

Cleanup(c) ==
    /\ At(c, "cleanup") /\ tmp' = "none" /\ staged' = "none"
    /\ inflight' = None /\ Released /\ Settle(calls, {c} \cup Joined, calls[c].aborted)
    /\ UNCHANGED <<row, file, item, server, prefetch, tasks, ask, recovery, history, bounds>>

\* stopDownload is best-effort: the writer of a transfer given up on may still write to
\* the file that another attempt has received or is receiving.
StrayWrites ==
    /\ Fault /\ staged = "whole" /\ staged' = "altered"
    /\ UNCHANGED <<row, file, tmp, item, server, calls, inflight, slots, screens, prefetch, tasks,
                   ask, recovery, history>>

-----------------------------------------------------------------------------
(* The views: useMediaDownload.                                             *)

ShouldDownload == item = "pending"

\* A new call takes one of the names that are free; which one makes no difference.
Idle ==
    LET free == {c \in Calls : At(c, "idle")}
    IN IF free = {} THEN {} ELSE {CHOOSE c \in free : TRUE}

Abort(c) == IF c = None THEN calls ELSE [calls EXCEPT ![c].aborted = TRUE]

\* The download effect of a view, after its cleanup.
Effect(s, view) ==
    \/ /\ ShouldDownload /\ ~view.busy
       /\ \E c \in Idle :
             /\ Begin(c, calls, s)
             /\ screens' = [screens EXCEPT ![s] = [view EXCEPT !.busy = TRUE, !.armed = TRUE,
                              !.bump = FALSE, !.seen = TRUE, !.ref = c]]
    \/ /\ ~ShouldDownload \/ view.busy
       /\ screens' = [screens EXCEPT ![s] = [view EXCEPT !.armed = FALSE, !.bump = FALSE,
                        !.seen = ShouldDownload]]
       /\ UNCHANGED <<calls, inflight, slots>>

Mount(s) ==
    /\ Visit /\ ~screens[s].up /\ Effect(s, [NoScreen EXCEPT !.up = TRUE])
    /\ UNCHANGED <<row, disk, item, server, prefetch, tasks, ask, recovery, history>>

Render(s) ==
    /\ screens[s].up /\ (screens[s].seen # ShouldDownload \/ screens[s].bump)
    /\ Effect(s, [screens[s] EXCEPT !.ref = IF screens[s].armed THEN None ELSE @])
    /\ UNCHANGED <<row, disk, item, server, prefetch, tasks, ask, recovery, history, bounds>>

\* The call goes on without its view, aborted if the view says so and still has its ref.
Unmount(s) ==
    /\ screens[s].up /\ screens' = [screens EXCEPT ![s] = NoScreen]
    /\ LET aborted == IF s \in Cancels THEN Abort(screens[s].ref) ELSE calls
       IN calls' = [c \in Calls |->
                       IF aborted[c].by = s THEN [aborted[c] EXCEPT !.by = None] ELSE aborted[c]]
    /\ UNCHANGED <<row, disk, item, server, inflight, slots, prefetch, tasks, ask, recovery,
                   history, bounds>>

\* "Tap to retry" of a failed photo.
Retry(s) ==
    /\ Visit /\ screens[s].up /\ item = "failed"
    /\ RowState("pending") /\ ItemState("pending")
    /\ \E c \in Idle :
          /\ Begin(c, Abort(screens[s].ref), None)
          /\ screens' = [screens EXCEPT ![s].ref = c]
    /\ UNCHANGED <<disk, server, prefetch, tasks, ask, recovery, history>>

\* handleImageError: the image view could not show the file, for the first time or again.
ImageFails(s) ==
    /\ Fault /\ screens[s].up /\ item = "downloaded"
    /\ \E state \in {"pending", "failed"} : ItemState(state)
    /\ UNCHANGED <<row, disk, server, calls, inflight, slots, screens, prefetch, tasks, ask,
                   recovery, history>>

\* An export, or the file library's cell: a call that no view waits for.
Export ==
    /\ Visit /\ \E c \in Idle : Begin(c, calls, "export")
    /\ UNCHANGED <<row, disk, item, server, screens, prefetch, tasks, ask, recovery, history>>

\* The export is cancelled: it stops waiting, and its signal aborts the call if it is the
\* one that works.
ExportCancelled(c) ==
    /\ calls[c].by = "export" /\ ~calls[c].aborted /\ calls' = Abort(c)
    /\ UNCHANGED <<row, disk, item, server, inflight, slots, screens, prefetch, tasks, ask,
                   recovery, history, bounds>>

-----------------------------------------------------------------------------
(* The prefetch drain.                                                      *)

\* The DRAIN_BATCH_LIMIT oldest pending rows.  Other rows come, go and stay as they will, so
\* a pending photo is among them, or that many older ones keep it out.
TakeBatch ==
    \/ row.state = "pending" /\ \E c \in Idle : Begin(c, calls, "drain")
    \/ UNCHANGED <<calls, inflight, slots>>

DrainStarts ==
    /\ ~draining /\ draining' = TRUE /\ TakeBatch
    /\ UNCHANGED <<row, disk, item, server, screens, rerun, tasks, ask, recovery, history, bounds>>

DrainAsked ==
    /\ draining /\ ~rerun /\ rerun' = TRUE
    /\ UNCHANGED <<row, disk, item, server, calls, inflight, slots, screens, draining, tasks, ask,
                   recovery, history, bounds>>

InBatch == \E c \in Calls : calls[c].by = "drain"

\* Mutant of DrainGoesOn: the flag is not taken back.
DrainStays == TRUE

\* Only a drain asked for in the meantime follows.
DrainGoesOn == rerun

\* All of the batch has settled; a drain asked for in the meantime runs at once.
DrainEnds ==
    /\ draining /\ ~InBatch
    /\ rerun' = FALSE /\ draining' = DrainGoesOn
    /\ \/ rerun /\ TakeBatch
       \/ ~rerun /\ UNCHANGED <<calls, inflight, slots>>
    /\ UNCHANGED <<row, disk, item, server, screens, tasks, ask, recovery, history, bounds>>

-----------------------------------------------------------------------------
(* Stale rows: the sweep of a launch, the file library, server metadata.    *)

Stale == row.state \notin {"downloaded", "downloading", "deleted"}

\* readDir, and later what it listed: a .tmp file of another hour is removed, a file
\* without a row is removed and one whose row says otherwise is taken over.
SweepLists ==
    /\ sweep.at = "list"
    /\ \E old \in {FALSE, tmp = "left"} :
          sweep' = [at |-> "files", file |-> file # "none", tmp |-> old]
    /\ UNCHANGED <<row, disk, item, server, calls, inflight, slots, screens, prefetch, library,
                   meta, teardown, ask, recovery, history, bounds>>

SweepTmp ==
    /\ sweep.at = "files" /\ sweep.tmp
    /\ sweep' = [sweep EXCEPT !.tmp = FALSE] /\ tmp' = "none"
    /\ UNCHANGED <<row, file, staged, item, server, calls, inflight, slots, screens, prefetch,
                   library, meta, teardown, ask, recovery, history, bounds>>

SweepFile ==
    /\ sweep.at = "files" /\ sweep.file
    /\ sweep' = [sweep EXCEPT !.file = FALSE]
    /\ \/ Deleted /\ file' = "none" /\ UNCHANGED <<row, item>>
       \/ Stale /\ RowDownloaded /\ ItemState("downloaded") /\ UNCHANGED file
       \/ ~Stale /\ ~Deleted /\ UNCHANGED <<row, item, file>>
    /\ UNCHANGED <<tmp, staged, server, calls, inflight, slots, screens, prefetch, library, meta,
                   teardown, ask, recovery, history, bounds>>

SweepRows ==
    /\ sweep.at = "files" /\ ~sweep.file /\ ~sweep.tmp
    /\ sweep' = IF row.state = "downloaded" /\ row.path
                  THEN [at |-> "probe", file |-> file # "none", tmp |-> FALSE]
                  ELSE NoSweep
    /\ UNCHANGED <<row, disk, item, server, calls, inflight, slots, screens, prefetch, library,
                   meta, teardown, ask, recovery, history, bounds>>

SweepProbed ==
    /\ sweep.at = "probe" /\ sweep' = NoSweep
    /\ IF sweep.file THEN UNCHANGED row ELSE RowState("pending")
    /\ UNCHANGED <<disk, item, server, calls, inflight, slots, screens, prefetch, library, meta,
                   teardown, ask, recovery, history, bounds>>

\* setMediaBatch and the merges keep an entry that is downloading.
Merged(state) == IF item = "downloading" THEN item ELSE state

Hydrate ==
    /\ ~Deleted /\ item' = Merged(row.state)
    /\ UNCHANGED <<row, disk, server, calls, inflight, slots, screens, prefetch, tasks, ask,
                   recovery, history, bounds>>

LibraryOpens ==
    /\ Visit /\ library.at = "off" /\ ~Deleted /\ item' = Merged(row.state)
    /\ library' = IF Stale THEN [at |-> "probe", saw |-> file # "none"] ELSE library
    /\ UNCHANGED <<row, disk, server, calls, inflight, slots, screens, prefetch, sweep, meta, teardown, ask,
                   recovery, history>>

LibraryProbed ==
    /\ library.at = "probe" /\ library' = NoProbe
    /\ \/ library.saw /\ RowDownloaded /\ ItemState("downloaded")
       \/ ~library.saw /\ UNCHANGED <<row, item>>
    /\ UNCHANGED <<disk, server, calls, inflight, slots, screens, prefetch, sweep, meta, teardown, ask,
                   recovery, history, bounds>>

\* processMediaMetadata takes the store's entry as it was when it began, or, if there was
\* none, the row when its turn comes: an entry made in between does not count.  What it
\* does for the other media goes on meanwhile.
MetaStarts ==
    /\ Visit /\ meta.at = "off"
    /\ \/ item # "absent" /\ meta' = [at |-> "merge", saw |-> FALSE, snap |-> item]
       \/ /\ row.state = "downloaded" /\ row.path
          /\ meta' = [at |-> "probe", saw |-> file # "none", snap |-> row.state]
       \/ /\ ~Deleted /\ ~(row.state = "downloaded" /\ row.path)
          /\ meta' = [at |-> "merge", saw |-> FALSE, snap |-> row.state]
    /\ UNCHANGED <<row, disk, item, server, calls, inflight, slots, screens, prefetch, sweep,
                   library, teardown, ask, recovery, history>>

MetaProbed ==
    /\ meta.at = "probe"
    /\ \/ meta.saw /\ meta' = [meta EXCEPT !.at = "merge"] /\ UNCHANGED row
       \/ /\ ~meta.saw /\ meta' = [meta EXCEPT !.at = "merge", !.snap = "pending"]
          /\ row' = [state |-> "pending", path |-> FALSE, confirmed |-> FALSE]
    /\ UNCHANGED <<disk, item, server, calls, inflight, slots, screens, prefetch, sweep, library,
                   teardown, ask, recovery, history, bounds>>

\* processedMediaIds: once in a launch.
MetaMerges ==
    /\ meta.at = "merge" /\ meta' = [NoMeta EXCEPT !.at = "done"]
    /\ item' = Merged(meta.snap)
    /\ UNCHANGED <<row, disk, server, calls, inflight, slots, screens, prefetch, sweep, library,
                   teardown, ask, recovery, history, bounds>>

\* teardownLocalMedia: the row, then the file at the path it had, then the entry.
TeardownStarts ==
    /\ Fault /\ ~teardown /\ ~Deleted /\ teardown' = TRUE
    /\ row' = [state |-> "deleted", path |-> FALSE, confirmed |-> FALSE]
    /\ file' = IF row.path THEN "none" ELSE file
    /\ lost' = TRUE
    /\ UNCHANGED <<tmp, staged, item, server, calls, inflight, slots, screens, prefetch, sweep,
                   library, meta, ask, recovery, torn>>

TeardownEnds ==
    /\ teardown /\ teardown' = FALSE /\ item' = "absent"
    /\ UNCHANGED <<row, disk, server, calls, inflight, slots, screens, prefetch, sweep, library,
                   meta, ask, recovery, history, bounds>>

-----------------------------------------------------------------------------
(* Confirmations, and the key recovery that clears them.                    *)

ConfirmDrain ==
    /\ row.state = "downloaded" /\ ~row.confirmed /\ ask = "off" /\ ask' = "out"
    /\ UNCHANGED <<row, disk, item, server, calls, inflight, slots, screens, prefetch, tasks,
                   recovery, history, bounds>>

\* Between a reset and the next sign-in every token is revoked.
Revoked == recovery \in {"reset", "cleared"}

ServeAsk ==
    /\ ask = "out" /\ ~Revoked /\ ask' = "back" /\ archived' = (archived \/ blob = "kept")
    /\ UNCHANGED <<row, disk, item, blob, calls, inflight, slots, screens, prefetch, tasks,
                   recovery, history, bounds>>

\* Confirmed, or 404: either way there is nothing more to confirm.
AskResumes ==
    /\ ask = "back" /\ ask' = "off" /\ RowConfirmed(TRUE)
    /\ UNCHANGED <<disk, item, server, calls, inflight, slots, screens, prefetch, tasks, recovery,
                   history, bounds>>

AskLost ==
    /\ ask # "off" /\ ask' = "off"
    /\ Fault \/ (Revoked /\ ask = "out" /\ UNCHANGED bounds)
    /\ UNCHANGED <<row, disk, item, server, calls, inflight, slots, screens, prefetch, tasks,
                   recovery, history>>

\* Everybody who may have the photo has confirmed it.
Evict ==
    /\ archived /\ blob = "kept" /\ blob' = "gone"
    /\ UNCHANGED <<row, disk, item, archived, calls, inflight, slots, screens, prefetch, tasks,
                   ask, recovery, history, bounds>>

\* recoverIdentityKeys: the server's reset wipes the confirmations, step 5 the device's flags.
RecoveryResets ==
    /\ \/ recovery = "off" /\ Fault /\ recovery' = "reset"
       \/ recovery = "signedIn" /\ recovery' = "off" /\ UNCHANGED bounds
    /\ archived' = FALSE
    /\ UNCHANGED <<row, disk, item, blob, calls, inflight, slots, screens, prefetch, tasks, ask,
                   history>>

RecoveryClears ==
    /\ recovery = "reset" /\ recovery' = "cleared"
    /\ RowConfirmed(FALSE)
    /\ UNCHANGED <<disk, item, server, calls, inflight, slots, screens, prefetch, tasks, ask,
                   history, bounds>>

\* After signing in the device resets once more if the server still has a key.
RecoverySignsIn ==
    /\ recovery = "cleared" /\ recovery' \in {"signedIn", "off"}
    /\ UNCHANGED <<row, disk, item, server, calls, inflight, slots, screens, prefetch, tasks, ask,
                   history, bounds>>

-----------------------------------------------------------------------------
(* Failures of the device.                                                  *)

\* The process ends; what is on disk stays as it is.
Crash ==
    /\ Fault /\ Launch /\ tmp' = IF tmp = "none" THEN tmp ELSE "left"
    /\ torn' = (torn \/ \E c \in Calls : At(c, "move") /\ calls[c].saw)
    /\ UNCHANGED <<row, file, staged, server, lost>>

\* A cleared cache, another simulator, a restored backup.
LoseFile ==
    /\ Fault /\ file # "none" /\ file' = "none" /\ lost' = TRUE
    /\ UNCHANGED <<row, tmp, staged, item, server, calls, inflight, slots, screens, prefetch,
                   tasks, ask, recovery, torn>>

-----------------------------------------------------------------------------
CallSteps(c) ==
    \/ Probed(c) \/ Start(c) \/ Received(c) \/ NotReceived(c) \/ Interrupted(c) \/ Verify(c)
    \/ Decrypt(c) \/ Promote(c) \/ Move(c) \/ MoveFails(c) \/ Persist(c) \/ Cleanup(c)

ScreenSteps(s) == Mount(s) \/ Render(s) \/ Unmount(s) \/ Retry(s) \/ ImageFails(s)

SweepSteps == SweepLists \/ SweepTmp \/ SweepFile \/ SweepRows \/ SweepProbed

StaleSteps == SweepSteps \/ Hydrate \/ LibraryOpens \/ LibraryProbed
              \/ TeardownStarts \/ TeardownEnds \/ MetaStarts \/ MetaProbed \/ MetaMerges

ConfirmSteps ==
    \/ ConfirmDrain \/ Evict \/ RecoveryResets \/ RecoveryClears \/ RecoverySignsIn
    \/ ServeAsk \/ AskResumes \/ AskLost

Next ==
    \/ \E c \in Calls : CallSteps(c) \/ ReceivedAltered(c) \/ ExportCancelled(c)
    \/ \E s \in Screens : ScreenSteps(s)
    \/ OtherStarts \/ OtherQueues \/ OtherEnds \/ StrayWrites
    \/ Export \/ DrainStarts \/ DrainAsked \/ DrainEnds
    \/ StaleSteps \/ ConfirmSteps \/ Crash \/ LoseFile

Spec == Init /\ [][Next]_vars

\* A transfer has a deadline and a stall watchdog, everything else is local work; the
\* app comes to the foreground again and again.
LiveSpec ==
    /\ Spec
    /\ \A c \in Calls : WF_vars(CallSteps(c))
    /\ WF_vars(OtherEnds) /\ WF_vars(DrainStarts) /\ WF_vars(DrainEnds)

-----------------------------------------------------------------------------
(* Properties.                                                              *)

CallType ==
    [pc : {"idle", "probing", "joined", "queued", "granted", "transfer", "verify", "decrypt",
           "promote", "move", "persist", "cleanup"},
     by : Screens \cup {None, "drain", "export"}, aborted : BOOLEAN, saw : BOOLEAN]
ScreenType ==
    [up : BOOLEAN, busy : BOOLEAN, armed : BOOLEAN, bump : BOOLEAN, seen : BOOLEAN,
     ref : Calls \cup {None}]

\* Every variable has its type.
TypeOK ==
    /\ row \in [state : States \cup {"deleted"}, path : BOOLEAN, confirmed : BOOLEAN]
    /\ file \in {"none", "whole", "broken"} /\ tmp \in {"none", "left", "part", "whole", "broken"}
    /\ staged \in {"none", "whole", "altered"}
    /\ item \in States \cup {"absent"} /\ blob \in {"kept", "gone"} /\ archived \in BOOLEAN
    /\ calls \in [Calls -> CallType] /\ inflight \in Calls \cup {None}
    /\ active \in 0..MAX_CONCURRENT /\ others \in 0..MAX_CONCURRENT /\ waiting \in 0..MaxWaiting
    /\ screens \in [Screens -> ScreenType] /\ draining \in BOOLEAN /\ rerun \in BOOLEAN
    /\ sweep \in [at : {"off", "list", "files", "probe"}, file : BOOLEAN, tmp : BOOLEAN]
    /\ library \in [at : {"off", "probe"}, saw : BOOLEAN]
    /\ meta \in [at : {"off", "probe", "merge", "done"}, saw : BOOLEAN, snap : States \cup {"absent"}]
    /\ ask \in {"off", "out", "back"}
    /\ recovery \in {"off", "reset", "cleared", "signedIn"}
    /\ teardown \in BOOLEAN /\ lost \in BOOLEAN /\ torn \in BOOLEAN
    /\ faults \in 0..MaxFaults /\ visits \in 0..MaxVisits

Holding == {"granted", "transfer", "verify", "decrypt", "promote", "move", "persist", "cleanup"}
Working == Holding \cup {"queued"}

\* However calls are begun, joined, aborted and awaited across the cache check, one of them
\* at a time works on the photo's files, the map of downloads in flight names it, calls join
\* only while there is one to settle them, and the semaphore's count is that of the downloads
\* that hold a slot, never above its limit.
OneDownload ==
    /\ \A c \in Calls : calls[c].pc \in Working <=> inflight = c
    /\ inflight = None => Joined = {}
    /\ active = others + (IF \E c \in Calls : calls[c].pc \in Holding THEN 1 ELSE 0)
    /\ active <= MAX_CONCURRENT

\* The whole photo is on disk, or was removed on purpose or from outside, or a promotion has
\* taken the old one away and not yet, or never, put the new one there.
Accounted == file = "whole" \/ lost \/ torn \/ \E c \in Calls : At(c, "move") /\ calls[c].saw

\* A row that says downloaded has a path and its whole photo on disk, whatever was interrupted
\* before it and whichever stale listing or probe wrote it, as far as it is accounted for.
DownloadedIsWhole == row.state = "downloaded" => row.path /\ Accounted

\* The server gives the photo up only while this device holds all of it: a confirmation is
\* never ahead of the file it stands for, through crashes, failed writes and recoveries.
CopyKept == blob = "gone" => Accounted

\* The device's copy as the server's bookkeeping has to see it: one that is being replaced
\* is still there.
Device ==
    IF file = "whole" \/ (\E c \in Calls : At(c, "move") /\ calls[c].saw) THEN "held"
    ELSE IF lost \/ torn THEN "lost" ELSE "never"

\* Every step of downloads, views, sweeps, confirmations, evictions, recoveries and crashes is
\* one that ArchivedPhoto allows, or changes neither copy nor confirmation.
Archive ==
    INSTANCE ArchivedPhoto
        WITH server <- blob, device <- Device, asked <- ask = "out", confirmed <- archived
ImplementsArchivedPhoto == Archive!Spec

\* A row made pending while its file is there: the cache check answers every call for it.
Answered == row.state = "pending" /\ row.path /\ file # "none"

\* A row left downloading by a kill or by a failed write of the outcome: no call takes it up.
Stranded == row.state = "downloading" /\ inflight = None

Outcome == row.state \notin {"pending", "downloading"}

\* A drain takes a batch that is full without this pending photo.
PassedOver ==
    /\ draining' /\ (~draining \/ (rerun /\ ~rerun'))
    /\ row.state = "pending" /\ ~InBatch'

\* Once failures and visits are over a photo is downloaded, failed, unavailable or deleted for
\* good.  Three exceptions, none of which the code ends: a row that every call's cache check
\* answers, a row stranded as downloading, and a photo that batch after batch passes over.
Settles ==
    \/ <>[](Outcome \/ Answered \/ Stranded)
    \/ <>[]~InBatch /\ []<><<PassedOver>>_vars

\* A violation: the store shows a download only while one is running, or the row says so.
SpinnerMeansDownload ==
    item = "downloading" =>
        row.state = "downloading" \/ \E c \in Calls : calls[c].pc \in Holding

\* A violation: a photo taken down leaves no copy on disk once what was running has ended.
TakedownComplete ==
    (Deleted /\ ~teardown /\ inflight = None /\ sweep.at = "off") => file = "none"

\* A violation: the flag says that the server has this device's confirmation.
FlagMeansConfirmed == row.confirmed => archived \/ blob = "gone" \/ recovery # "off"
=============================================================================
