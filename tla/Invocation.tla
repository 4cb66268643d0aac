----------------------------- MODULE Invocation -----------------------------
(***************************************************************************)
(* Discovery of invocations and the picker that shows them (ui/app/        *)
(* invocation, adapters/invocation, adapters/herdr/discovery).             *)
(*                                                                         *)
(* One worker of the external lane serves the requests in order: a walk of *)
(* the definition roots under budgets of roots, paths, entries and depth,  *)
(* or one snapshot of the live agents.  The picker takes answers by their  *)
(* generation and says when what it shows may be incomplete.  Paths are    *)
(* model values; the text of a definition is its validity and its sigil.   *)
(***************************************************************************)
EXTENDS Integers, Sequences, FiniteSets, SequencesExt

CONSTANTS Worlds,       \* file trees and plugin registries, see World
          Agents,       \* live agents the provider may report
          MaxRoots, MaxPaths, MaxEntries, MaxDepth,   \* the work budget
          MaxRows,      \* MAX_AGENT_ROWS
          MaxRefreshes, \* bound on file system refreshes
          MaxMoves      \* bound on what the user and the agents do

(***************************************************************************)
(* A world: node -> [kind, kids, canon, prec] with the kinds dir, skill    *)
(* (a directory with a definition), link (a linked directory with a        *)
(* definition), def, bad (an unusable definition); the sigil of a canonical*)
(* path; roots, those that exist in order of precedence; plugins, a        *)
(* sequence of installations, each a sequence of component roots (or Gap,  *)
(* which does not exist); and the state of the plugin registry.            *)
(***************************************************************************)
VARIABLES world, managed, agents,
          lane, results,          \* requests and answers in order
          scan,                   \* the walk the worker is in, or NoScan
          cancelled,              \* the runtime's cancellation flag
          generation, catalog, fsNotes,       \* the accepted file system answer
          popup, token,           \* the picker, and the token at the cursor
          refGeneration, refPending, live, provNotes,
          moves,
          accepted,               \* ghost: the generation of the accepted answer, 0 for none
          steady                  \* ghost: agents alive since the last reference request

vars == <<world, managed, agents, lane, results, scan, cancelled, generation, catalog,
          fsNotes, popup, token, refGeneration, refPending, live, provNotes, moves, accepted, steady>>
ui == <<generation, catalog, fsNotes, popup, token, refGeneration, refPending, live, provNotes, moves,
        accepted, steady>>

Gap == "gap"
NoScan == [phase |-> "none"]
Node(p) == world.node[p]

\* The declared roots that exist, plugin roots among the later ones.
PluginPrecedence == 70

------------------------------------------------------------------------------
(* The work budget.                                                        *)

\* WorkBudget::new with admit_initial_roots and the truncation of the roots.
NewScan(gen) ==
  LET over == Len(world.roots) > MaxRoots
      roots == SubSeq(world.roots, 1, IF over THEN MaxRoots ELSE Len(world.roots))
  IN [phase |-> "early", gen |-> gen, roots |-> Len(roots), paths |-> 0, entries |-> 0,
      exhausted |-> IF over THEN {"root"} ELSE {}, notes |-> IF over THEN {"root"} ELSE {},
      early |-> SelectSeq(roots, LAMBDA r : Node(r).prec < PluginPrecedence),
      late |-> SelectSeq(roots, LAMBDA r : Node(r).prec >= PluginPrecedence),
      plugged |-> << >>, stack |-> << >>, prec |-> 0, seen |-> {}]

Exhaust(s, limit) == [s EXCEPT !.exhausted = @ \union {limit}, !.notes = @ \union {limit}]
\* Mutated form: an entry over the budget is dropped without a note.
AdmitSilently(s, d) ==
  IF s.entries >= MaxEntries THEN [s EXCEPT !.exhausted = @ \union {"entry"}]
  ELSE [s EXCEPT !.entries = @ + 1, !.seen = @ \union {[canon |-> Node(d).canon, prec |-> s.prec]}]
\* push, with admit_entry: a usable definition is recorded under its canonical path.
Admit(s, d) ==
  IF s.entries >= MaxEntries THEN Exhaust(s, "entry")
  ELSE [s EXCEPT !.entries = @ + 1, !.seen = @ \union {[canon |-> Node(d).canon, prec |-> s.prec]}]
\* visit_path, for a caller that goes on only if it is granted.
Visited(s) == IF s.paths >= MaxPaths THEN Exhaust(s, "path") ELSE [s EXCEPT !.paths = @ + 1]
Granted(s) == s.paths < MaxPaths
\* observe_cancellation.
Observed(s) == IF cancelled THEN Exhaust(s, "cancelled") ELSE s
\* should_stop.
Stops(s) ==
  \/ s.exhausted \intersect {"entry", "cancelled"} # {}
  \/ "path" \in s.exhausted /\ s.paths >= MaxPaths

------------------------------------------------------------------------------
(* The walk.                                                               *)

\* bounded_children: the first children in order that the budget still admits.
Children(s, p) ==
  LET kids == Node(p).kids
      left == MaxPaths - s.paths
  IN IF Len(kids) > left
     THEN [kept |-> SubSeq(kids, 1, left), scan |-> Exhaust(s, "path")]
     ELSE [kept |-> kids, scan |-> s]

\* walk of a directory at a depth: its children are put before what is left.
Enter(s, p, depth) ==
  IF depth > MaxDepth THEN [s EXCEPT !.notes = @ \union {"depth"}]
  ELSE IF Node(p).kind = "skill" THEN Admit(s, p)
  ELSE LET c == Children(s, p)
       IN [c.scan EXCEPT !.stack = [i \in 1..Len(c.kept) |-> <<c.kept[i], depth + 1>>] \o @]

\* One child: charged to the budget, then walked, recorded or passed over.
Child(s, p, depth) ==
  IF ~Granted(s) THEN Visited(s)
  ELSE CASE Node(p).kind \in {"dir", "skill"} -> Enter(Visited(s), p, depth)
         [] Node(p).kind \in {"link", "def"} -> Admit(Visited(s), p)
         [] OTHER -> Visited(s)

\* scan_root: a directory is walked, a definition file is recorded.
Root(s, p) ==
  LET at == [s EXCEPT !.prec = Node(p).prec]
  IN CASE Node(p).kind \in {"dir", "skill"} -> Enter(at, p, 0)
       [] Node(p).kind = "def" -> Admit(at, p)
       [] OTHER -> at

\* plugins::roots over one installation after the other: each costs a path, and so
\* does each of its components; those that exist become roots.
Component(s, p) ==
  IF Stops(s) \/ "root" \in s.exhausted THEN s
  ELSE IF ~Granted(s) \/ cancelled THEN Observed(Visited(s))
  ELSE IF p = Gap THEN Visited(s)
  ELSE IF s.roots >= MaxRoots THEN Exhaust(Visited(s), "root")
  ELSE [Visited(s) EXCEPT !.roots = @ + 1, !.plugged = Append(@, p)]
Installation(s, plugin) ==
  IF Stops(s) \/ "root" \in s.exhausted THEN s
  ELSE IF ~Granted(s) \/ cancelled THEN Observed(Visited(s))
  ELSE FoldSeq(LAMBDA p, acc : Component(acc, p), Visited(s), plugin)
\* The registry costs a path of its own; one that is too large leaves a note.
Plugins(s) ==
  IF Stops(s) \/ "root" \in s.exhausted \/ world.registry = "none" THEN s
  ELSE IF ~Granted(s) \/ cancelled THEN Observed(Visited(s))
  ELSE IF world.registry = "oversized" THEN [Visited(s) EXCEPT !.notes = @ \union {"registry"}]
  ELSE FoldSeq(LAMBDA p, acc : Installation(acc, p), Visited(s), world.plugins)

\* One step of discover: cancellation is seen between any two of them.
Stepped(s0) ==
  LET s == Observed(s0)
  IN IF Stops(s) THEN [s EXCEPT !.phase = "done"]
     ELSE IF s.stack # << >> THEN Child([s EXCEPT !.stack = Tail(@)], Head(s.stack)[1], Head(s.stack)[2])
     ELSE IF s.phase = "early" /\ s.early # << >>
       THEN Root([s EXCEPT !.early = Tail(@)], Head(s.early))
     ELSE IF s.phase = "early"
       THEN LET t == Plugins(s) IN [t EXCEPT !.phase = "late", !.late = t.plugged \o @]
     ELSE IF s.late # << >> THEN Root([s EXCEPT !.late = Tail(@)], Head(s.late))
     ELSE [s EXCEPT !.phase = "done"]

\* consolidate::entries: one entry for a canonical path, under the lowest precedence.
Entries(s) ==
  {e \in s.seen : \A f \in s.seen : f.canon = e.canon => e.prec <= f.prec}

------------------------------------------------------------------------------
(* The worker of the external lane.                                        *)

TakeDiscovery ==
  /\ scan = NoScan /\ lane # << >> /\ Head(lane).kind = "fs"
  /\ scan' = NewScan(Head(lane).gen) /\ lane' = Tail(lane)
  /\ UNCHANGED <<world, managed, agents, results, cancelled>> /\ UNCHANGED ui

Walk ==
  /\ scan # NoScan /\ scan.phase # "done"
  /\ scan' = Stepped(scan)
  /\ UNCHANGED <<world, managed, agents, lane, results, cancelled>> /\ UNCHANGED ui

FinishDiscovery ==
  /\ scan # NoScan /\ scan.phase = "done"
  /\ results' = Append(results, [kind |-> "fs", gen |-> scan.gen, entries |-> Entries(scan), notes |-> scan.notes])
  /\ scan' = NoScan
  /\ UNCHANGED <<world, managed, agents, lane, cancelled>> /\ UNCHANGED ui

\* discover_invocation_references: one snapshot, bounded in rows; outside a managed
\* pane there is nothing to report, and a failing provider reports no agent at all.
LiveReferences ==
  /\ scan = NoScan /\ lane # << >> /\ Head(lane).kind = "ref"
  /\ lane' = Tail(lane)
  /\ \E answer \in
       IF ~managed THEN {[refs |-> {}, notes |-> {}]}
       ELSE {[refs |-> {}, notes |-> {"failure"}]}
            \union {[refs |-> r, notes |-> IF Cardinality(agents) > MaxRows THEN {"rows"} ELSE {}] :
                      r \in {q \in SUBSET agents : Cardinality(q) =
                               IF Cardinality(agents) > MaxRows THEN MaxRows ELSE Cardinality(agents)}} :
       results' = Append(results, [kind |-> "ref", gen |-> Head(lane).gen,
                                   refs |-> answer.refs, notes |-> answer.notes])
  /\ UNCHANGED <<world, managed, agents, scan, cancelled>> /\ UNCHANGED ui

\* Shutdown sets the cancellation flag; the walk notices at its next step.
Cancel ==
  /\ ~cancelled /\ cancelled' = TRUE
  /\ UNCHANGED <<world, managed, agents, lane, results, scan>> /\ UNCHANGED ui

------------------------------------------------------------------------------
(* The picker.                                                             *)

\* choices::build: the entries with the token's sigil and, for an at sign, the live
\* agents; a picker opened by hand shows everything.
Offers(cat, refs, tok) ==
  \/ \E e \in cat : world.sigil[e.canon] = tok
  \/ tok = "at" /\ refs # {}
\* refresh_invocation_popup.
Refreshed(cat, refs, tok) ==
  IF popup = "manual" THEN "manual"
  ELSE IF tok # "none" /\ Offers(cat, refs, tok) THEN "auto" ELSE "closed"

\* begin_reference_refresh.
BeginReferences ==
  /\ refGeneration' = refGeneration + 1 /\ refPending' = refGeneration + 1
  /\ live' = {} /\ provNotes' = {}
  /\ lane' = Append(lane, [kind |-> "ref", gen |-> refGeneration + 1])
  /\ steady' = agents

Move == moves < MaxMoves /\ moves' = moves + 1

\* open_invocation_picker: by hand, from Edit.
OpenPicker ==
  /\ Move /\ popup' = "manual" /\ BeginReferences
  /\ UNCHANGED <<world, managed, agents, results, scan, cancelled, generation, catalog, fsNotes, token, accepted>>

\* close_invocation_picker, from Escape, a choice or the palette.
ClosePicker ==
  /\ Move /\ popup # "closed" /\ popup' = "closed" /\ live' = {} /\ provNotes' = {}
  /\ IF refPending # 0
     THEN refPending' = 0 /\ refGeneration' = refGeneration + 1
     ELSE UNCHANGED <<refPending, refGeneration>>
  /\ UNCHANGED <<world, managed, agents, lane, results, scan, cancelled, generation, catalog, fsNotes,
                 token, accepted, steady>>

\* refresh_invocation_popup_after_input: an input leaves another token at the cursor.
Type(tok) ==
  LET next == Refreshed(catalog, live, tok)
      opened == popup = "closed" /\ next # "closed"
      awaiting == next = "closed" /\ refPending = 0 /\ tok = "at"
  IN /\ Move /\ popup # "manual" /\ token' = tok
     \* rebuilt after the references were cleared: the picker stays open, even empty
     /\ popup' = next
     /\ IF opened \/ awaiting THEN BeginReferences
        ELSE UNCHANGED <<refGeneration, refPending, live, provNotes, lane, steady>>
     /\ UNCHANGED <<world, managed, agents, results, scan, cancelled, generation, catalog, fsNotes, accepted>>

\* refresh_invocations: at the start, by command, or when the host focus returns.
Refresh ==
  /\ generation < MaxRefreshes /\ generation' = generation + 1
  /\ lane' = Append(lane, [kind |-> "fs", gen |-> generation + 1])
  /\ UNCHANGED <<world, managed, agents, results, scan, cancelled, catalog, fsNotes, popup, token,
                 refGeneration, refPending, live, provNotes, moves, accepted, steady>>

\* complete_invocation_discovery.
TakeCatalog ==
  /\ results # << >> /\ Head(results).kind = "fs" /\ results' = Tail(results)
  /\ IF Head(results).gen # generation THEN UNCHANGED <<catalog, fsNotes, popup, accepted>>
     ELSE /\ catalog' = Head(results).entries /\ fsNotes' = Head(results).notes
          /\ popup' = Refreshed(Head(results).entries, live, token) /\ accepted' = generation
  /\ UNCHANGED <<world, managed, agents, lane, scan, cancelled, generation, token, refGeneration,
                 refPending, live, provNotes, moves, steady>>

\* Mutated form: any answer serves while one is awaited.
AcceptsAnyReference(r) == refPending # 0
\* complete_invocation_reference_discovery: only the awaited, newest generation.
AcceptsReference(r) == refPending = r.gen /\ r.gen = refGeneration
TakeReferences ==
  /\ results # << >> /\ Head(results).kind = "ref" /\ results' = Tail(results)
  /\ IF ~AcceptsReference(Head(results)) THEN UNCHANGED <<refPending, live, provNotes, popup>>
     ELSE /\ refPending' = 0 /\ live' = Head(results).refs /\ provNotes' = Head(results).notes
          /\ popup' = IF popup = "closed" /\ token = "at" THEN Refreshed(catalog, Head(results).refs, token) ELSE popup
  /\ UNCHANGED <<world, managed, agents, lane, scan, cancelled, generation, catalog, fsNotes, token,
                 refGeneration, moves, accepted, steady>>

\* An agent starts or ends.
Agent(a) ==
  /\ Move /\ agents' = IF a \in agents THEN agents \ {a} ELSE agents \union {a}
  /\ steady' = steady \intersect agents'
  /\ UNCHANGED <<world, managed, lane, results, scan, cancelled, generation, catalog, fsNotes, popup, token,
                 refGeneration, refPending, live, provNotes, accepted>>

------------------------------------------------------------------------------
Init ==
  /\ world \in Worlds /\ managed \in BOOLEAN
  /\ agents \in IF managed THEN SUBSET Agents ELSE {{}}
  /\ lane = << >> /\ results = << >> /\ scan = NoScan /\ cancelled = FALSE
  /\ generation = 0 /\ catalog = {} /\ fsNotes = {}
  /\ popup = "closed" /\ token = "none"
  /\ refGeneration = 0 /\ refPending = 0 /\ live = {} /\ provNotes = {}
  /\ moves = 0 /\ accepted = 0 /\ steady = {}

Next ==
  \/ TakeDiscovery \/ Walk \/ FinishDiscovery \/ LiveReferences \/ Cancel
  \/ OpenPicker \/ ClosePicker \/ Refresh \/ TakeCatalog \/ TakeReferences
  \/ \E tok \in {"none", "slash", "at"} \ {token} : Type(tok)
  \/ \E a \in Agents : managed /\ Agent(a)

Spec == Init /\ [][Next]_vars

------------------------------------------------------------------------------
Notes == {"root", "path", "entry", "depth", "registry", "cancelled"}
TypeOK ==
  /\ world \in Worlds /\ managed \in BOOLEAN /\ agents \subseteq Agents
  /\ \A i \in DOMAIN lane : lane[i].kind \in {"fs", "ref"}
  /\ \A i \in DOMAIN results : results[i].kind \in {"fs", "ref"}
  /\ generation \in 0..MaxRefreshes /\ fsNotes \subseteq Notes
  /\ popup \in {"closed", "auto", "manual"} /\ token \in {"none", "slash", "at"}
  /\ refPending \in 0..refGeneration /\ live \subseteq Agents
  /\ provNotes \subseteq {"failure", "rows"}
  /\ scan = NoScan \/ (scan.paths \in 0..MaxPaths /\ scan.entries \in 0..MaxEntries /\ scan.roots \in 0..MaxRoots)

\* Every definition below a node, without any budget.
Definitions[p \in DOMAIN world.node] ==
  CASE Node(p).kind \in {"def", "link", "skill"} -> {Node(p).canon}
    [] Node(p).kind = "dir" -> UNION {Definitions[k] : k \in Range(Node(p).kids)}
    [] OTHER -> {}
AllRoots == Range(world.roots)
            \union (IF world.registry = "none" THEN {} ELSE UNION {Range(p) : p \in Range(world.plugins)} \ {Gap})

\* Two completeness reasons, one notice (invocation_notice, InvocationCompleteness): while
\* the picker shows no notice, the catalog it took is every definition below every root
\* and installed plugin, whatever budget ran out on the way; and once the references it
\* asked for have come, every agent alive since then is among the live ones.
SilentMeansComplete ==
  popup # "closed" /\ fsNotes \union provNotes = {} =>
    /\ accepted # 0 => {e.canon : e \in catalog} = UNION {Definitions[r] : r \in AllRoots}
    /\ popup = "manual" /\ refPending = 0 => steady \subseteq live

\* consolidate::entries: a definition several roots reach is one choice.
OneEntryPerDefinition ==
  \A e, f \in catalog : e.canon = f.canon => e = f

\* The picker (ui/app/invocation, adapters/invocation): without a notice it is complete, and a
\* definition is one choice.
InvocationSafe == TypeOK /\ SilentMeansComplete /\ OneEntryPerDefinition
==============================================================================
