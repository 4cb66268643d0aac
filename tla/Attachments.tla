---------------------------- MODULE Attachments ----------------------------
(***************************************************************************)
(* Attachment health: the cache of what the accessibility lane answered,   *)
(* its schedule, the manual refresh and the preflight of a submission      *)
(* (application/attachments, attachments/keys, ui/app/attachments,         *)
(* adapters/terminal/accessibility_lane).                                  *)
(*                                                                         *)
(* The owner keeps one batch in flight.  While it is checked the user goes *)
(* on editing, so an answer is about keys that may be gone, renamed by an  *)
(* edit (the key holds a digest of the text) or asked for again since.     *)
(* An attachment stands for its kind, number, display name and path; every *)
(* answer other than "available" is "bad", and a key without an answer is  *)
(* "unknown" or "checking", which no decision tells apart.                 *)
(***************************************************************************)
EXTENDS Integers, Sequences, FiniteSets, SequencesExt, TLC

CONSTANTS Thoughts,     \* positive integers, in board order
          Atts,         \* attachments a text may hold, positive integers
          MaxRev,       \* texts (digests) a thought may have: 0..MaxRev
          Batch,        \* checks per batch
          Subs,         \* submission identities, positive integers
          MaxEdits,     \* bound on edits
          MaxRefreshes, \* bound on refreshes
          MaxFocus      \* bound on changes of focus

VARIABLES board,    \* thought -> [live, rev, atts]
          att,      \* the accessibility state
          lane,     \* the batch in the lane: [at, answers]
          intents,  \* submissions that wait for their preflight
          edits, refreshes, focuses,
          backed,   \* ghost: attachments answered "ok" since the refresh began
          report,   \* ghost: what the last manual refresh told the user
          prepared  \* ghost: submissions prepared, and whether backed by checks

vars == <<board, att, lane, intents, edits, refreshes, focuses, backed, report, prepared>>

None == [none |-> TRUE]
NoBatch == [at |-> "idle", answers |-> <<>>]
SentBatch == [at |-> "sent", answers |-> <<>>]
Background == 0

\* attachment_keys: the exact cache identities of a live thought.
Keys(b, t) == IF b[t].live THEN {[t |-> t, a |-> a, rev |-> b[t].rev] : a \in b[t].atts} ELSE {}
Known(b) == UNION {Keys(b, t) : t \in Thoughts}
\* Board order: the thoughts in order, and the attachments within each.
Slots == SetToSortSeq(Thoughts \X Atts, LAMBDA x, y : x[1] < y[1] \/ (x[1] = y[1] /\ x[2] < y[2]))
InOrder(keys) ==
  LET at(x) == {k \in keys : k.t = x[1] /\ k.a = x[2]}
      hit == SelectSeq(Slots, LAMBDA x : at(x) # {})
  IN [i \in 1..Len(hit) |-> CHOOSE k \in at(hit[i]) : TRUE]

Fresh == [ok |-> {}, bad |-> {}, background |-> <<>>, preflights |-> <<>>, flight |-> None,
          alias |-> <<>>, epoch |-> 0, manual |-> None]

------------------------------------------------------------------------------
(* The schedule.                                                           *)

HasResult(s, k) == k \in s.ok \cup s.bad
Alias(s, k) == IF k \in DOMAIN s.alias THEN s.alias[k] ELSE k

\* key_in_current_in_flight: asked already, in the current generation.
InCurrentFlight(s, k) ==
  /\ s.flight # None
  /\ s.flight.purpose # Background \/ s.flight.epoch = s.epoch
  /\ \E c \in Range(s.flight.keys) : c = k \/ Alias(s, c) = k

EnqueueBack(s, keys, force) ==
  [s EXCEPT !.background = @ \o SelectSeq(keys, LAMBDA k :
      k \notin Range(s.background) /\ ~InCurrentFlight(s, k) /\ (force \/ ~HasResult(s, k)))]
EnqueueFront(s, keys) ==
  LET new == SelectSeq(keys, LAMBDA k : ~InCurrentFlight(s, k) /\ ~HasResult(s, k))
  IN [s EXCEPT !.background = new \o SelectSeq(@, LAMBDA k : k \notin Range(new))]
EnqueueBoard(s, b, focused, force) ==
  EnqueueBack(s, InOrder(Keys(b, focused)) \o InOrder(Known(b) \ Keys(b, focused)), force)

\* mark_paths_accessible, mark_thought_accessible
MarkAccessible(s, keys) == [s EXCEPT !.ok = @ \cup keys, !.bad = @ \ keys]

Take(q) == SubSeq(q, 1, IF Len(q) < Batch THEN Len(q) ELSE Batch)
Rest(q) == SubSeq(q, Len(Take(q)) + 1, Len(q))
\* schedule: one batch at a time, a preflight before the background.
Schedule(s) ==
  LET subs == DOMAIN s.preflights
      first == CHOOSE i \in subs : \A j \in subs : i <= j
      purpose == IF subs = {} THEN Background ELSE first
      queue == IF subs = {} THEN s.background ELSE s.preflights[first].remaining
      launch == [s EXCEPT !.flight = [purpose |-> purpose, keys |-> Take(queue), epoch |-> s.epoch]]
  IN IF s.flight # None \/ queue = <<>> THEN s
     ELSE IF subs = {} THEN [launch EXCEPT !.background = Rest(queue)]
     ELSE [launch EXCEPT !.preflights[first].remaining = Rest(queue)]
\* The batch a schedule launched is in the lane.
Sent(s) == IF s.flight # att.flight THEN SentBatch ELSE lane

------------------------------------------------------------------------------
(* A board change.                                                         *)

\* matching_key_pairs: the key of the same attachment in the changed text.
Pairs(old, new, changed) ==
  [k \in {k \in UNION {Keys(old, t) : t \in changed} : \E l \in Keys(new, k.t) : l.a = k.a} |->
     CHOOSE l \in Keys(new, k.t) : l.a = k.a]
Stable(old, new, changed) ==
  \A t \in changed : {k.a : k \in Keys(old, t)} = {k.a : k \in Keys(new, t)}

\* migrate_health: results follow their attachment to its new key.
MigrateHealth(s, new, changed, pairs) ==
  LET migrated(keys) == {k \in keys : k.t \notin changed /\ k \in Known(new)}
                        \cup {pairs[k] : k \in keys \cap DOMAIN pairs}
  IN [s EXCEPT !.ok = migrated(@), !.bad = migrated(@)]

Follow(pairs, k) == IF k \in DOMAIN pairs THEN pairs[k] ELSE k
\* Mutated form: the batch in flight is not told of the new keys.
RemapWithoutFlight(s, new, pairs) ==
  LET lives(k) == k \in DOMAIN pairs \/ k \in Known(new)
      queue == SelectSeq(s.background, lives)
  IN [s EXCEPT !.background = [i \in 1..Len(queue) |-> Follow(pairs, queue[i])]]
\* remap_scheduled_keys: the queue, the pending refresh and the batch in flight.
Remap(s, new, pairs) ==
  LET lives(k) == k \in DOMAIN pairs \/ k \in Known(new)
      queue == SelectSeq(s.background, lives)
      asked == IF s.flight = None THEN {} ELSE Range(s.flight.keys)
  IN [s EXCEPT
       !.background = [i \in 1..Len(queue) |-> Follow(pairs, queue[i])],
       !.manual = IF @ = None THEN @
                  ELSE [@ EXCEPT !.pending = {Follow(pairs, k) : k \in {k \in @ : lives(k)}}],
       !.alias = [k \in asked \cap DOMAIN pairs |-> pairs[k]]
                 @@ [k \in DOMAIN @ |-> Follow(pairs, @[k])]]

Restart(s, b, focused) ==
  EnqueueBoard([s EXCEPT !.epoch = @ + 1, !.background = <<>>,
                         !.manual = [epoch |-> s.epoch + 1, pending |-> Known(b)]],
               b, focused, TRUE)
\* reconcile, with the queue not yet scheduled.
Reconcile(s, old, new) ==
  LET changed == {t \in Thoughts : Keys(old, t) # Keys(new, t)}
      pairs == Pairs(old, new, changed)
      moved == Remap(MigrateHealth(s, new, changed, pairs), new, pairs)
      first == CHOOSE t \in changed : \A u \in changed : t <= u
  IN IF changed = {} THEN s
     ELSE IF Stable(old, new, changed) THEN moved
     ELSE IF s.manual # None THEN Restart(moved, new, first)
     ELSE EnqueueFront(moved, InOrder(UNION {Keys(new, t) : t \in changed}))
Restarted(s) == s.epoch # att.epoch

------------------------------------------------------------------------------
(* What the owner does.                                                    *)

Locked == {intents[i].t : i \in DOMAIN intents}

Init ==
  /\ board = [t \in Thoughts |-> [live |-> t = 1, rev |-> 0, atts |-> IF t = 1 THEN {1} ELSE {}]]
  /\ att = Schedule(EnqueueBoard(Fresh, board, 1, FALSE))
  /\ lane = SentBatch /\ intents = <<>>
  /\ edits = 0 /\ refreshes = 0 /\ focuses = 0
  /\ backed = {} /\ report = None /\ prepared = {}

\* One reducer step on an unlocked thought: text, attachments or life change,
\* the cache is reconciled, the focus follows, and a paste brings its own
\* proof that its paths are readable.
Edit ==
  /\ edits < MaxEdits /\ edits' = edits + 1
  /\ \E t \in Thoughts \ Locked, alive, pasted \in BOOLEAN, rev \in 0..MaxRev, atts \in SUBSET Atts :
       LET after == [board EXCEPT ![t] = [live |-> alive, rev |-> rev, atts |-> atts]]
           s == Schedule(Reconcile(att, board, after))
           new == {k \in Keys(after, t) : k.a \notin board[t].atts}
       IN /\ after # board /\ (rev = board[t].rev => atts = board[t].atts)
          /\ Cardinality(atts \ board[t].atts) <= 1 /\ (pasted => new # {})
          /\ board' = after /\ lane' = Sent(s)
          /\ att' = IF pasted THEN MarkAccessible(s, new) ELSE s
          /\ backed' = IF Restarted(s) THEN {} ELSE backed
  /\ UNCHANGED <<intents, refreshes, focuses, report, prepared>>

\* prioritize_focus: what is still unknown of the focused thought comes first.
Focus(t) ==
  /\ board[t].live /\ focuses < MaxFocus /\ focuses' = focuses + 1
  /\ LET s == Schedule(EnqueueFront(att, InOrder(Keys(board, t)))) IN att' = s /\ lane' = Sent(s)
  /\ UNCHANGED <<board, intents, edits, refreshes, backed, report, prepared>>

\* attachments_applicability: the command needs attachments and no refresh.
Applicable(manual) == manual => Known(board) # {} /\ att.manual = None
Suppressed(manual) == ~manual /\ att.manual # None
\* refresh_all, quiet (host focus, first interaction after inactivity) or manual.
Refresh(manual, t) ==
  /\ refreshes < MaxRefreshes /\ refreshes' = refreshes + 1 /\ Applicable(manual)
  /\ IF Suppressed(manual)
     THEN UNCHANGED <<att, lane, backed, report>>
     ELSE LET known == Known(board)
              s == [att EXCEPT
                     !.epoch = @ + 1, !.background = <<>>,
                     !.ok = @ \cap known, !.bad = @ \cap known,
                     !.manual = IF manual /\ known # {}
                                THEN [epoch |-> att.epoch + 1, pending |-> known] ELSE None]
              launched == Schedule(EnqueueBoard(s, board, t, TRUE))
          IN /\ att' = launched /\ lane' = Sent(launched)
             /\ backed' = IF manual THEN {} ELSE backed
             /\ report' = IF manual /\ known = {} THEN [bad |-> 0, backed |-> TRUE] ELSE report
  /\ UNCHANGED <<board, intents, edits, focuses, prepared>>

\* begin_submission_preflight on durable sources, which stay locked.
Submit(i, t) ==
  /\ i \notin DOMAIN intents /\ i \notin {p.sub : p \in prepared}
  /\ t \notin Locked /\ Keys(board, t) # {}
  /\ intents' = intents @@ (i :> [t |-> t, keys |-> Keys(board, t), rev |-> board[t].rev, seen |-> {}])
  /\ LET s == Schedule([att EXCEPT !.preflights =
                @ @@ (i :> [remaining |-> InOrder(Keys(board, t)), bad |-> 0])])
     IN att' = s /\ lane' = Sent(s)
  /\ UNCHANGED <<board, edits, refreshes, focuses, backed, report, prepared>>

Answers == {"ok", "bad"}
Replies(keys) == [Range(keys) -> Answers]
\* The worker's killable process probes the paths of the batch in order, or
\* fails or times out as a whole, which makes every answer bad.
Execute ==
  /\ lane = SentBatch
  /\ \E answers \in Replies(att.flight.keys) :
       /\ lane' = [at |-> "done", answers |-> answers]
       /\ backed' = backed \cup {<<k.t, k.a>> : k \in {k \in DOMAIN answers : answers[k] = "ok"}}
       /\ intents' = IF att.flight.purpose = Background THEN intents
                     ELSE [intents EXCEPT ![att.flight.purpose].seen =
                             @ \cup {k \in DOMAIN answers : answers[k] = "ok"}]
  /\ UNCHANGED <<board, att, edits, refreshes, focuses, report, prepared>>

\* apply_results: an answer reaches the key its attachment has now, unless a
\* refresh made it stale.
ApplyResults(s, answers) ==
  LET fresh == s.flight.purpose # Background \/ s.flight.epoch = s.epoch
      hit == {k \in DOMAIN answers : fresh /\ Alias(s, k) \in Known(board)}
      answered(r) == {Alias(s, k) : k \in {k \in hit : answers[k] = r}}
  IN [s EXCEPT !.ok = (@ \ answered("bad")) \cup answered("ok"),
               !.bad = (@ \ answered("ok")) \cup answered("bad")]

\* Mutated form: any background batch counts for the refresh.
AnsweredEver(s) == s.manual.pending \ {Alias(s, k) : k \in Range(s.flight.keys)}
\* finish_manual_refresh_batch: what the refresh still waits for.
Answered(s) ==
  IF s.manual.epoch = s.flight.epoch
  THEN s.manual.pending \ {Alias(s, k) : k \in Range(s.flight.keys)} ELSE s.manual.pending

Landed(s) == [s EXCEPT !.flight = None, !.alias = [k \in DOMAIN @ \ Range(s.flight.keys) |-> @[k]]]
NotOk(s) == Known(board) \ s.ok
\* finish_attachment_refresh: how many attachments are not readable.
Report(s) == [bad |-> Cardinality(NotOk(s)), backed |-> \A k \in Known(board) : <<k.t, k.a>> \in backed]

DrainBackground ==
  /\ lane.at = "done" /\ att.flight.purpose = Background
  /\ LET s == ApplyResults(att, lane.answers)
         left == IF s.manual = None THEN {} ELSE Answered(s)
         ended == s.manual # None /\ left = {}
         next == Schedule(Landed([s EXCEPT
                   !.manual = IF @ = None \/ ended THEN None ELSE [@ EXCEPT !.pending = left]]))
     IN /\ att' = next
        /\ lane' = IF next.flight = None THEN NoBatch ELSE SentBatch
        /\ report' = IF ended
             THEN Report(s)
             ELSE report
  /\ UNCHANGED <<board, intents, edits, refreshes, focuses, backed, prepared>>

\* Mutated form: the first batch settles the preflight.
PreflightDoneEarly(p) == TRUE
\* finish_preflight_batch waits for the remaining batches.
PreflightDone(p) == p.remaining = <<>>
\* complete_attachment_preflight: prepared only when nothing changed and every
\* attachment is readable; otherwise the sources are released.
DrainPreflight ==
  /\ lane.at = "done" /\ att.flight.purpose # Background
  /\ LET i == att.flight.purpose
         s == ApplyResults(att, lane.answers)
         p == [s.preflights[i] EXCEPT !.bad = @ + Cardinality({k \in DOMAIN lane.answers : lane.answers[k] = "bad"})]
         intent == intents[i]
         unchanged == Keys(board, intent.t) = intent.keys /\ board[intent.t].rev = intent.rev
         next == Schedule(Landed([s EXCEPT !.preflights =
                   IF PreflightDone(p) THEN [j \in DOMAIN @ \ {i} |-> @[j]] ELSE [@ EXCEPT ![i] = p]]))
     IN /\ att' = next
        /\ lane' = IF next.flight = None THEN NoBatch ELSE SentBatch
        /\ intents' = IF PreflightDone(p) THEN [j \in DOMAIN intents \ {i} |-> intents[j]] ELSE intents
        /\ prepared' = IF PreflightDone(p) /\ unchanged /\ p.bad = 0
             THEN prepared \cup {[sub |-> i, backed |-> Keys(board, intent.t) \subseteq intent.seen]}
             ELSE prepared
  /\ UNCHANGED <<board, edits, refreshes, focuses, backed, report>>

Next ==
  \/ Edit
  \/ \E t \in Thoughts : Focus(t) \/ \E manual \in BOOLEAN : Refresh(manual, t)
  \/ \E i \in Subs, t \in Thoughts : Submit(i, t)
  \/ Execute \/ DrainBackground \/ DrainPreflight

Spec == Init /\ [][Next]_vars

------------------------------------------------------------------------------
(* Properties.                                                             *)

\* Type invariant of the cache and its schedule.
TypeOK ==
  /\ \A t \in Thoughts : board[t].rev \in 0..MaxRev /\ board[t].atts \subseteq Atts
  /\ att.ok \cap att.bad = {} /\ att.ok \cup att.bad \subseteq Known(board)
  /\ att.flight = None <=> lane = NoBatch
  /\ DOMAIN att.preflights = DOMAIN intents

\* What the user is told rests on probes made for it: "all attachments are
\* accessible" only when each one was probed after that refresh began, however
\* edits moved its key, and a submission is prepared only when each attachment
\* of its text, as it is then, was readable in a probe made for it.
ReportsAreBacked ==
  /\ report # None /\ report.bad = 0 => report.backed
  /\ \A p \in prepared : p.backed

\* No attachment is forgotten: when no batch is in flight each one has its
\* answer, although edits change keys while they are in flight and refreshes
\* discard the answers of older batches.
IdleMeansChecked == att.flight = None => Known(board) \subseteq att.ok \cup att.bad

\* Attachment checks (application/attachments): a report rests on a check of the shown revision,
\* and an idle lane has nothing left to check.
AttachmentsSafe == TypeOK /\ ReportsAreBacked /\ IdleMeansChecked
==============================================================================
