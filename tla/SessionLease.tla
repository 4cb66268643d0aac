---------------------------- MODULE SessionLease ----------------------------
(***************************************************************************)
(* Which process owns a session: one lock file per session, one metadata   *)
(* file and one control socket per instance, and the scans that other      *)
(* processes run at any time to list the owners and to clear what dead     *)
(* ones left behind.                                                       *)
(***************************************************************************)
EXTENDS Naturals, FiniteSets

CONSTANTS Instances,     \* processes: an instance identity is never used again
          Interactive,   \* the instances that may serve a session to their end
          Sessions,
          MaxScans       \* bound on scans

VARIABLES
    stage,      \* instance -> where it is in acquiring or dropping a lease
    session,    \* instance -> the session it works on
    locked,     \* session -> instances holding the exclusive lock (at most one)
    probed,     \* session -> scanners holding the shared lock for a moment
    metadata,   \* instance -> its metadata file
    socket,     \* instances whose control socket exists
    scan,       \* instance -> the metadata entries its scan still has to settle
    doomed,     \* instance -> the entries it found unlocked and is about to remove
    scans,
    returned    \* history, read by no action: the instances that gave a lease back

vars == <<stage, session, locked, probed, metadata, socket, scan, doomed, scans, returned>>
leases == <<stage, session, locked, metadata, socket, returned>>
scanning == <<probed, scan, doomed, scans>>

None == "none"
Info(s, control) == [session |-> s, control |-> control]
NoInfo == Info(None, FALSE)

Init ==
    /\ stage = [i \in Instances |-> "idle"]
    /\ session = [i \in Instances |-> None]
    /\ locked = [s \in Sessions |-> {}]
    /\ probed = [s \in Sessions |-> {}]
    /\ metadata = [i \in Instances |-> NoInfo]
    /\ socket = {}
    /\ scan = [i \in Instances |-> {}]
    /\ doomed = [i \in Instances |-> {}]
    /\ scans = MaxScans
    /\ returned = {}

Goto(i, at) == stage' = [stage EXCEPT ![i] = at]

-----------------------------------------------------------------------------
(* acquire_session_lease                                                   *)

\* A command may work on several sessions one after another, and so may an
\* interactive instance: its picker leases what it renames, trashes, restores or
\* moves back in time, and then the session that it resumes and serves.
Open(i, s) ==
    /\ stage[i] = "idle"
    /\ session' = [session EXCEPT ![i] = s]
    /\ Goto(i, "try")
    /\ UNCHANGED <<locked, metadata, socket, returned, scanning>>

Free(s) == locked[s] = {} /\ probed[s] = {}

\* try_session_lock: a second attempt after 2 ms, for the sake of a scan that
\* holds the shared lock for an instant; then SessionBusy.
TryLock(i) ==
    /\ stage[i] \in {"try", "retry"}
    /\ IF Free(session[i])
       THEN locked' = [locked EXCEPT ![session[i]] = {i}] /\ Goto(i, "purge")
       ELSE UNCHANGED locked /\ Goto(i, IF stage[i] = "try" THEN "retry" ELSE "idle")
    /\ UNCHANGED <<session, metadata, socket, returned, scanning>>

Entry(i) == [instance |-> i, info |-> metadata[i]]
Entries == {Entry(i) : i \in {j \in Instances : metadata[j] # NoInfo}}

\* remove_stale_control_endpoint and remove_if_exists, for a set of entries
RemoveEntries(es) ==
    /\ socket' = socket \ {e.instance : e \in {f \in es : f.info.control}}
    /\ metadata' = [i \in Instances |-> IF \E e \in es : e.instance = i THEN NoInfo ELSE metadata[i]]

\* purge_metadata_for
PurgeMetadata(i) ==
    /\ stage[i] = "purge"
    /\ RemoveEntries({e \in Entries : e.info.session = session[i]})
    /\ Goto(i, "write")
    /\ UNCHANGED <<session, locked, returned, scanning>>

Unlock(i) == locked' = [locked EXCEPT ![session[i]] = @ \ {i}]

\* write_private_json creates a new file or fails, which gives the lock back.
WriteMetadata(i) ==
    /\ stage[i] = "write"
    /\ \/ /\ metadata[i] = NoInfo
          /\ metadata' = [metadata EXCEPT ![i] = Info(session[i], FALSE)]
          /\ Goto(i, "held")
          /\ UNCHANGED locked
       \/ Unlock(i) /\ Goto(i, "idle") /\ UNCHANGED metadata
    /\ UNCHANGED <<session, socket, returned, scanning>>

\* The control listener binds its socket, then publish_control replaces the
\* metadata file; a command does neither.
Bind(i) ==
    /\ stage[i] = "held"
    /\ i \in Interactive
    /\ socket' = socket \cup {i}
    /\ Goto(i, "bound")
    /\ UNCHANGED <<session, locked, metadata, returned, scanning>>

PublishControl(i) ==
    /\ stage[i] = "bound"
    /\ metadata' = [metadata EXCEPT ![i] = Info(session[i], TRUE)]
    /\ Goto(i, "published")
    /\ UNCHANGED <<session, locked, socket, returned, scanning>>

-----------------------------------------------------------------------------
(* FileSessionLease::drop                                                  *)

\* What was only held is dropped and the instance goes on; what was served is
\* dropped when the program ends.
Dropping(i) == IF stage[i] = "held" THEN "dropped" ELSE "closing"

\* Mutated form: the lock is given back before the files are removed.
DropMetadataUnlocked(i) ==
    /\ stage[i] \in {"held", "bound", "published"}
    /\ Unlock(i)
    /\ Goto(i, Dropping(i))
    /\ UNCHANGED <<session, metadata, socket, returned, scanning>>

DropMetadata(i) ==
    /\ stage[i] \in {"held", "bound", "published"}
    /\ socket' = socket \ {i}
    /\ metadata' = [metadata EXCEPT ![i] = NoInfo]
    /\ Goto(i, Dropping(i))
    /\ UNCHANGED <<session, locked, returned, scanning>>

DropLock(i) ==
    /\ stage[i] \in {"dropped", "closing"}
    /\ Unlock(i)
    /\ Goto(i, IF stage[i] = "dropped" THEN "idle" ELSE "dead")
    /\ returned' = returned \cup {i}
    /\ UNCHANGED <<session, metadata, socket, scanning>>

\* The process dies: the system releases its lock, the files stay.
Crash(i) ==
    /\ stage[i] \notin {"idle", "try", "retry", "dead"}
    /\ Unlock(i)
    /\ Goto(i, "dead")
    /\ probed' = [s \in Sessions |-> probed[s] \ {i}]
    /\ scan' = [scan EXCEPT ![i] = {}]
    /\ doomed' = [doomed EXCEPT ![i] = {}]
    /\ UNCHANGED <<session, metadata, socket, scans, returned>>

-----------------------------------------------------------------------------
(* scan_runtime: all metadata is read first, then each entry is settled    *)

ReadMetadata(i) ==
    /\ stage[i] # "dead"
    /\ scan[i] = {} /\ doomed[i] = {}
    /\ Entries # {}
    /\ scans > 0
    /\ scans' = scans - 1
    /\ scan' = [scan EXCEPT ![i] = Entries]
    /\ UNCHANGED <<leases, probed, doomed>>

\* Mutated form: an entry counts as stale when its socket is gone.
ProbeSocket(i) ==
    \E e \in scan[i] :
        /\ scan' = [scan EXCEPT ![i] = @ \ {e}]
        /\ doomed' = [doomed EXCEPT ![i] = IF e.instance \in socket THEN @ ELSE @ \cup {e}]
        /\ UNCHANGED <<leases, probed, scans>>

\* try_lock_shared; a locked session is active and the entry is kept
Probe(i) ==
    \E e \in scan[i] :
        /\ scan' = [scan EXCEPT ![i] = @ \ {e}]
        /\ IF locked[e.info.session] = {}
           THEN /\ probed' = [probed EXCEPT ![e.info.session] = @ \cup {i}]
                /\ doomed' = [doomed EXCEPT ![i] = @ \cup {e}]
           ELSE UNCHANGED <<probed, doomed>>
        /\ UNCHANGED <<leases, scans>>

\* The shared lock is given back before the files are removed.
Unprobe(i) ==
    \E s \in Sessions :
        /\ i \in probed[s]
        /\ probed' = [probed EXCEPT ![s] = @ \ {i}]
        /\ UNCHANGED <<leases, scan, doomed, scans>>

RemoveStale(i) ==
    /\ \A s \in Sessions : i \notin probed[s]
    /\ doomed[i] # {}
    /\ RemoveEntries(doomed[i])
    /\ doomed' = [doomed EXCEPT ![i] = {}]
    /\ UNCHANGED <<stage, session, locked, probed, scan, scans, returned>>

Next ==
    \E i \in Instances :
        \/ \E s \in Sessions : Open(i, s)
        \/ TryLock(i) \/ PurgeMetadata(i) \/ WriteMetadata(i) \/ Bind(i) \/ PublishControl(i)
        \/ DropMetadata(i) \/ DropLock(i) \/ Crash(i)
        \/ ReadMetadata(i) \/ Probe(i) \/ Unprobe(i) \/ RemoveStale(i)

Spec == Init /\ [][Next]_vars

-----------------------------------------------------------------------------
TypeOK ==
    /\ stage \in [Instances -> {"idle", "try", "retry", "purge", "write", "held", "bound",
                                "published", "dropped", "closing", "dead"}]
    /\ session \in [Instances -> Sessions \cup {None}]
    /\ locked \in [Sessions -> SUBSET Instances]
    /\ probed \in [Sessions -> SUBSET Instances]
    /\ socket \subseteq Instances
    /\ \A i \in Instances : metadata[i] = NoInfo \/ metadata[i].session \in Sessions
    /\ scans \in 0..MaxScans
    /\ returned \subseteq Instances

\* A session has at most one owner, and the interactive owner is found by
\* whoever looks: its metadata names the session and its socket is there,
\* whatever scans of other processes, begun earlier, remove meanwhile.  Only an
\* owner that gave an earlier lease back may lose its metadata, to a scan that
\* read the earlier entry; it keeps its lock and, once published, its socket.
OwnerDiscoverable ==
    \A i \in Interactive :
        /\ stage[i] \in {"held", "bound", "published"} =>
              /\ locked[session[i]] = {i}
              /\ \/ metadata[i] = Info(session[i], stage[i] = "published")
                 \/ i \in returned /\ metadata[i] = NoInfo
        /\ stage[i] \in {"bound", "published"} => i \in socket

\* Session leases (adapters/runtime/session_lock): the owner that answers stays discoverable.
SessionLeaseSafe == TypeOK /\ OwnerDiscoverable
=============================================================================
