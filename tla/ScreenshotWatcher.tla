-------------------------- MODULE ScreenshotWatcher --------------------------
(***************************************************************************)
(* MacScreenshotWatcher: which files of the watched directory become       *)
(* candidates.  Directory events are only hints (a file rewritten in place *)
(* gives none); a file is delivered once it was seen unchanged for the     *)
(* debounce interval, and never when it existed before the activation.     *)
(***************************************************************************)
EXTENDS Naturals, FiniteSets

CONSTANTS Files,       \* file identities: device, inode and birth time
          Debounce,    \* config.debounce, in ticks
          MaxTime,     \* bound on the clock
          MaxWrites    \* bound on the contents of a file

VARIABLES
    disk,       \* file -> its visible observation: 0 not yet, n its n-th contents, Gone
    image,      \* file -> whether the current contents are an acceptable image
    changed,    \* file -> when its contents or path last changed
    now,        \* the monotonic clock
    hint,       \* a directory event is waiting in the kqueue
    mode,       \* "off", "on", or "final" with its deadline running
    baseline,   \* identities present at the activation
    pending,    \* file -> [seen, since]: PendingCandidate
    delivered   \* file -> how long it had been unchanged when it was delivered

vars == <<disk, image, changed, now, hint, mode, baseline, pending, delivered>>
world == <<disk, image, changed, now>>

Gone == MaxWrites + 1
Restricted(f, keep) == [x \in keep |-> f[x]]

Init ==
    /\ disk \in [Files -> 0..1]
    /\ image = [f \in Files |-> TRUE]
    /\ changed = [f \in Files |-> 0]
    /\ now = 0
    /\ hint = FALSE
    /\ mode = "off"
    /\ baseline = {}
    /\ pending = <<>>
    /\ delivered = <<>>

-----------------------------------------------------------------------------
(* The directory, external                                                 *)

\* A new entry or a rename: the directory changes, so there is an event.
Appear(f, good) ==
    /\ disk[f] = 0
    /\ disk' = [disk EXCEPT ![f] = 1]
    /\ image' = [image EXCEPT ![f] = good]
    /\ changed' = [changed EXCEPT ![f] = now]
    /\ hint' = (mode # "off")
    /\ UNCHANGED <<now, mode, baseline, pending, delivered>>

\* The contents change in place: no event of the directory.
Rewrite(f, good) ==
    /\ disk[f] \in 1..(MaxWrites - 1)
    /\ disk' = [disk EXCEPT ![f] = @ + 1]
    /\ image' = [image EXCEPT ![f] = good]
    /\ changed' = [changed EXCEPT ![f] = now]
    /\ UNCHANGED <<now, hint, mode, baseline, pending, delivered>>

\* An identity holds the birth time, so a deleted one never comes back.
Vanish(f) ==
    /\ disk[f] \in 1..MaxWrites
    /\ disk' = [disk EXCEPT ![f] = Gone]
    /\ image' = [image EXCEPT ![f] = FALSE]
    /\ hint' = (mode # "off")
    /\ UNCHANGED <<changed, now, mode, baseline, pending, delivered>>

Tick == now < MaxTime /\ now' = now + 1 /\ UNCHANGED <<disk, image, changed, hint, mode, baseline, pending, delivered>>

-----------------------------------------------------------------------------
(* The watcher                                                             *)

\* scan_cheap: identities and observations, without reading any contents
ScanCheap == {f \in Files : disk[f] \in 1..MaxWrites}

\* inspect_eligibility: size, kind, signal and image header of one file
InspectEligibility(f) == image[f]

\* Mutated form: a file that changed keeps the time it was first seen.
ObserveKeepsSince(f, p) ==
    IF f \in DOMAIN p THEN [seen |-> disk[f], since |-> p[f].since] ELSE [seen |-> disk[f], since |-> now]

\* observe: a change restarts the debounce interval.
Observe(f, p) ==
    IF f \in DOMAIN p /\ p[f].seen = disk[f] THEN p[f] ELSE [seen |-> disk[f], since |-> now]

\* The pending candidates after the files were looked at: gone ones and ones
\* that are no longer acceptable are dropped, unchanged ones are not read.
Observed ==
    LET fresh == ScanCheap \ (baseline \cup DOMAIN delivered)
        unchanged == {f \in fresh \cap DOMAIN pending : pending[f].seen = disk[f]}
        keep == unchanged \cup {f \in fresh \ unchanged : InspectEligibility(f)}
    IN  [f \in keep |-> Observe(f, pending)]

\* ready_at
ReadyAt(p) == {f \in DOMAIN p : now - p[f].since >= Debounce}

\* reconcile and take_ready: what stayed the same for the interval goes out.
Reconcile ==
    LET seen == Observed
        ready == ReadyAt(seen)
    IN  /\ pending' = Restricted(seen, DOMAIN seen \ ready)
        /\ delivered' = [f \in DOMAIN delivered \cup ready |->
                            IF f \in ready THEN now - changed[f] ELSE delivered[f]]
        /\ hint' = FALSE

\* start and initialize: the watch is opened before the baseline is taken.
Start ==
    /\ mode = "off"
    /\ mode' = "on"
    /\ hint' = FALSE
    /\ baseline' = {f \in ScanCheap : changed[f] <= now}
    /\ pending' = <<>>
    /\ delivered' = <<>>
    /\ UNCHANGED world

\* poll: a hint, or the debounce of some pending candidate ended
Poll ==
    /\ mode = "on"
    /\ hint \/ ReadyAt(pending) # {}
    /\ Reconcile
    /\ UNCHANGED <<world, mode, baseline>>

\* final_reconcile: at once, again on hints until the deadline, then closed
FinalReconcile ==
    /\ mode \in {"on", "final"}
    /\ mode = "final" => (hint \/ ReadyAt(pending) # {})
    /\ Reconcile
    /\ mode' = "final"
    /\ UNCHANGED <<world, baseline>>

Close ==
    /\ mode = "final"
    /\ mode' = "off"
    /\ hint' = FALSE
    /\ pending' = <<>>
    /\ UNCHANGED <<world, baseline, delivered>>

Next ==
    \/ \E f \in Files, good \in BOOLEAN : Appear(f, good) \/ Rewrite(f, good)
    \/ \E f \in Files : Vanish(f)
    \/ Tick \/ Start \/ Poll \/ FinalReconcile \/ Close

Spec == Init /\ [][Next]_vars

-----------------------------------------------------------------------------
TypeOK ==
    /\ disk \in [Files -> 0..Gone]
    /\ now \in 0..MaxTime
    /\ mode \in {"off", "on", "final"}
    /\ baseline \subseteq Files
    /\ DOMAIN pending \subseteq Files
    /\ DOMAIN delivered \subseteq Files

\* A candidate is never one that was there before, and was not touched for the
\* whole debounce interval before it went out, although changes in place give
\* no event and the same file may change again and again.
DeliveredStable ==
    \A f \in DOMAIN delivered : f \notin baseline /\ delivered[f] >= Debounce

\* The watcher (adapters/screenshot): only files that were whole and at rest are delivered.
ScreenshotWatcherSafe == TypeOK /\ DeliveredStable
=============================================================================
