------------------------------- MODULE Export -------------------------------
(***************************************************************************)
(* Exporting thoughts to a file (ui/app/export, adapters/export,           *)
(* application/mutations/export, cli/execute/export).                      *)
(*                                                                         *)
(* The user in the interface and a command write files through the same    *)
(* writer, each file system call being a step of its own, while other      *)
(* programs create, change and remove the file in between.  The board      *)
(* changes only after the write, and only if it is still what was written. *)
(* A text is a sequence of <<thought, value>>; a file is [id, text, kind]  *)
(* where id stands for device, inode, length and modification time.        *)
(***************************************************************************)
EXTENDS Integers, Sequences, FiniteSets, SequencesExt

CONSTANTS Thoughts,     \* thought identities
          Paths,        \* destinations, positive numbers
          MaxValue,     \* contents of a thought are 1..MaxValue
          MaxExports,   \* bound on exports begun, by user and command
          MaxFiles,     \* bound on file identities: writes and foreign files
          MaxForeign,   \* bound on changes by other programs
          MaxChanges,   \* bound on board changes meanwhile
          MaxFaults     \* bound on file system calls that fail

VARIABLES board,    \* [order, live, value, locked, failed]: live thoughts stand in this order
          ui,       \* the export dialog, or NoExport
          cli,      \* the export command, or NoExport
          writer,   \* what each writer is doing: "ui" is the external worker
          target,   \* path -> file, or Absent
          staged,   \* writer -> file under its temporary name, or Absent
          left,     \* displaced files whose names were reported
          clock,    \* fresh file identities
          exports, foreign, changes, faults,  \* bounded counters
          accepted, \* operation identities the store has recorded
          durable,  \* ghost: texts a writer reported written
          removed,  \* ghost: texts taken from the board by an export
          lost,     \* ghost: identities of files a writer deleted
          allowed   \* ghost: identities it was allowed to delete

fileVars == <<target, staged, left, clock, lost, allowed>>
boardVars == <<board, removed>>
counters == <<exports, foreign, changes, faults>>
vars == <<boardVars, fileVars, counters, ui, cli, writer, accepted, durable>>

Writers == {"ui", "cli"}
Absent == [id |-> 0]
NoExport == [stage |-> "none"]
NoPath == 0
NoListing == -1
NoWrite == [pc |-> "idle"]
\* Removing and replacing by a reference take the thoughts in the same way.
Dispositions == {"keep", "change"}

Init ==
  /\ board = [order |-> SetToSeq(Thoughts), live |-> Thoughts,
              value |-> [t \in Thoughts |-> 1], locked |-> {}, failed |-> FALSE]
  /\ ui = NoExport /\ cli = NoExport /\ writer = [w \in Writers |-> NoWrite]
  /\ \E f \in {Absent, [id |-> 1, text |-> << >>, kind |-> "file"]} : target = [p \in Paths |-> f]
  /\ staged = [w \in Writers |-> Absent] /\ left = {} /\ clock = 2
  /\ exports = 0 /\ foreign = 0 /\ changes = 0 /\ faults = 0 /\ accepted = {}
  /\ durable = {} /\ removed = {} /\ lost = {} /\ allowed = {}

Fault == faults < MaxFaults /\ faults' = faults + 1

------------------------------------------------------------------------------
(* Texts and the board.                                                    *)

\* copy_text of the thoughts of S, in board order.
TextOf(S) == [i \in 1..Cardinality(S) |->
                LET t == SelectSeq(board.order, LAMBDA x : x \in S)[i] IN <<t, board.value[t]>>]
ThoughtsOf(text) == {text[i][1] : i \in DOMAIN text}

\* Mutated form: a source that was edited while its file was written matches.
ExactSourcesLive(text) == ThoughtsOf(text) \subseteq board.live
\* exact_sources: live, unchanged and in the order they were written.
ExactSources(text) == ThoughtsOf(text) \subseteq board.live /\ text = TextOf(ThoughtsOf(text))

\* complete_export as the reducer runs it: refused when a source is locked or
\* changed, or when storage has failed.
CanComplete(text) == ~board.failed /\ ThoughtsOf(text) \cap board.locked = {} /\ ExactSources(text)
CompleteExport(text, disposition) ==
  IF disposition # "keep" /\ CanComplete(text)
  THEN /\ board' = [board EXCEPT !.live = @ \ ThoughtsOf(text)]
       /\ removed' = removed \cup {TextOf(ThoughtsOf(text))}
  ELSE UNCHANGED boardVars

------------------------------------------------------------------------------
(* The file writer.                                                        *)

Fail(w, error) == writer' = [writer EXCEPT ![w] = [pc |-> "done", error |-> error]]
Step(w, pc) == writer' = [writer EXCEPT ![w].pc = pc]
Own(w) == [id |-> writer[w].own, text |-> writer[w].text, kind |-> "file"]

\* A request reaches the writer; its temporary file gets a fresh identity.
StartWrite(w, path, text, overwrite) ==
  /\ writer[w].pc = "idle" /\ clock <= MaxFiles /\ clock' = clock + 1
  /\ writer' = [writer EXCEPT ![w] = [pc |-> "inspect", path |-> path, text |-> text,
                                      overwrite |-> overwrite, own |-> clock]]

\* inspect_target and authorize: what stands at the path decides.
Inspect(w) ==
  /\ writer[w].pc = "inspect"
  /\ LET r == writer[w] f == target[r.path]
     IN \/ /\ f = Absent
           /\ IF r.overwrite.kind = "confirmed" THEN Fail(w, [kind |-> "changed"]) ELSE Step(w, "install")
        \/ /\ f # Absent /\ f.kind # "file" /\ Fail(w, [kind |-> "invalid"])
        \/ /\ f # Absent /\ f.kind = "file"
           /\ CASE r.overwrite.kind = "identical" /\ f.text = r.text -> Step(w, "sync")
                [] r.overwrite.kind \in {"refuse", "identical"} /\ ~(r.overwrite.kind = "identical" /\ f.text = r.text)
                     -> Fail(w, [kind |-> "exists", id |-> f.id])
                [] r.overwrite.kind = "confirmed" /\ r.overwrite.id # f.id -> Fail(w, [kind |-> "changed"])
                [] OTHER -> Step(w, "exchange")
  /\ UNCHANGED <<fileVars, faults, durable>>

\* Mutated form: the new file replaces whatever stands at the path.
InstallOver(w) ==
  /\ writer[w].pc = "install"
  /\ target' = [target EXCEPT ![writer[w].path] = Own(w)] /\ Step(w, "sync")
  /\ lost' = lost \cup ({target[writer[w].path].id} \ {0})
  /\ UNCHANGED <<staged, left, clock, allowed, faults, durable>>
\* persist_new: installed only where nothing stands.
Install(w) ==
  /\ writer[w].pc = "install"
  /\ LET p == writer[w].path
     IN \/ target[p] = Absent /\ target' = [target EXCEPT ![p] = Own(w)] /\ Step(w, "sync")
        \/ /\ target[p] # Absent /\ UNCHANGED target
           /\ Fail(w, IF target[p].kind = "file" THEN [kind |-> "exists", id |-> target[p].id]
                      ELSE [kind |-> "invalid"])
  /\ UNCHANGED <<staged, left, clock, lost, allowed, faults, durable>>

\* replace, first step: one atomic exchange of the two names.
Exchange(w) ==
  /\ writer[w].pc = "exchange"
  /\ LET p == writer[w].path
     IN \/ /\ target[p] = Absent /\ UNCHANGED <<target, staged, faults>>
           /\ IF writer[w].overwrite.kind = "always" THEN Step(w, "install")
              ELSE Fail(w, [kind |-> "changed"])
        \/ /\ target[p] # Absent /\ UNCHANGED faults
           /\ target' = [target EXCEPT ![p] = Own(w)] /\ staged' = [staged EXCEPT ![w] = target[p]]
           /\ Step(w, "verify")
        \/ Fault /\ Fail(w, [kind |-> "unsupported"]) /\ UNCHANGED <<target, staged>>
  /\ UNCHANGED <<left, clock, lost, allowed, durable>>

\* verify_displaced: a regular file, and the one that was confirmed.
Expected(w) ==
  /\ staged[w].kind = "file"
  /\ writer[w].overwrite.kind = "confirmed" => staged[w].id = writer[w].overwrite.id
\* The displaced file is removed, or its temporary name is reported.
Discard(w, next) ==
  \/ /\ lost' = lost \cup {staged[w].id} /\ staged' = [staged EXCEPT ![w] = Absent]
     /\ next /\ UNCHANGED <<left, faults>>
  \/ /\ Fault /\ Fail(w, [kind |-> "displaced"]) /\ left' = left \cup {staged[w]}
     /\ staged' = [staged EXCEPT ![w] = Absent] /\ UNCHANGED lost
\* Mutated form: the displaced file is not looked at.
VerifyAnything(w) ==
  /\ writer[w].pc = "verify" /\ Discard(w, Step(w, "sync"))
  /\ UNCHANGED <<target, clock, allowed, durable>>
Verify(w) ==
  /\ writer[w].pc = "verify"
  /\ \/ /\ Expected(w) /\ Discard(w, Step(w, "sync"))
        /\ allowed' = IF writer[w].overwrite.kind = "always" THEN allowed \cup {staged[w].id} ELSE allowed
     \/ ~Expected(w) /\ Step(w, "restore") /\ UNCHANGED <<staged, left, lost, allowed, faults>>
  /\ UNCHANGED <<target, clock, durable>>

\* restore: the names are exchanged back, and what came back must be the
\* writer's own file before it is deleted.
Restore(w) ==
  /\ writer[w].pc = "restore"
  /\ LET p == writer[w].path
     IN \/ /\ target[p] # Absent /\ target' = [target EXCEPT ![p] = staged[w]]
           /\ IF target[p].id = writer[w].own
              THEN staged' = [staged EXCEPT ![w] = Absent] /\ Fail(w, [kind |-> "changed"])
                   /\ UNCHANGED left
              ELSE staged' = [staged EXCEPT ![w] = Absent] /\ left' = left \cup {target[p]}
                   /\ Fail(w, [kind |-> "displaced"])
           /\ UNCHANGED faults
        \/ /\ (target[p] = Absent /\ UNCHANGED faults) \/ Fault
           /\ left' = left \cup {staged[w]} /\ staged' = [staged EXCEPT ![w] = Absent]
           /\ Fail(w, [kind |-> "displaced"]) /\ UNCHANGED target
  /\ UNCHANGED <<clock, lost, allowed, durable>>

\* The directory is synchronized, or the write is reported as unconfirmed.
Sync(w) ==
  /\ writer[w].pc = "sync"
  /\ \/ /\ writer' = [writer EXCEPT ![w] = [pc |-> "done", error |-> [kind |-> "none"]]]
        /\ durable' = durable \cup {writer[w].text} /\ UNCHANGED faults
     \/ Fault /\ Fail(w, [kind |-> "unconfirmed"]) /\ UNCHANGED durable
  /\ UNCHANGED fileVars

Write(w) ==
  /\ \/ Inspect(w) \/ Install(w) \/ Exchange(w) \/ Verify(w) \/ Restore(w) \/ Sync(w)
  /\ UNCHANGED <<boardVars, ui, cli, accepted, exports, foreign, changes>>

\* Another program creates, rewrites, replaces or removes what stands at a
\* path; what it takes away itself is not lost by Proqi.
ForeignChange ==
  /\ foreign < MaxForeign /\ foreign' = foreign + 1
  /\ \E p \in Paths, f \in {Absent} \cup {[id |-> clock, text |-> << >>, kind |-> k] : k \in {"file", "other"}} :
       target' = [target EXCEPT ![p] = f]
  /\ clock' = clock + 1
  /\ UNCHANGED <<boardVars, staged, left, lost, allowed, ui, cli, writer, accepted, durable, exports, changes, faults>>

------------------------------------------------------------------------------
(* The dialog of the interface.                                            *)

\* begin_export: no dialog for a board change that could not be made now.
BeginExport(S, disposition) ==
  /\ ui = NoExport /\ exports < MaxExports /\ exports' = exports + 1
  /\ S # {} /\ S \subseteq board.live
  /\ disposition # "keep" => ~board.failed /\ S \cap board.locked = {}
  /\ ui' = [stage |-> "path", disposition |-> disposition, text |-> TextOf(S), field |-> NoPath,
            listing |-> NoListing, existing |-> Absent.id]
  /\ UNCHANGED <<fileVars, writer>>

\* The destination is typed; an edit forgets the completion under way.
EditField(p) ==
  /\ ui.stage = "path" /\ ui.field # p /\ ui' = [ui EXCEPT !.field = p, !.listing = NoListing]
  /\ UNCHANGED <<fileVars, writer, exports>>

\* A directory listing is asked for the field as it is; when it arrives it
\* completes the field if that is still what was asked about.
AskListing ==
  /\ ui.stage = "path" /\ ui' = [ui EXCEPT !.listing = ui.field]
  /\ UNCHANGED <<fileVars, writer, exports>>
CompleteListing ==
  /\ ui.stage # "none" /\ ui.listing # NoListing
  /\ \/ /\ ui.field = ui.listing /\ ui.stage = "path"
        /\ \E p \in Paths : ui' = [ui EXCEPT !.field = p, !.listing = NoListing]
     \/ ui' = [ui EXCEPT !.listing = NoListing]
  /\ UNCHANGED <<fileVars, writer, exports>>

\* The thoughts as they are now, in the order the dialog captured.
Recaptured(text) == [i \in DOMAIN text |-> <<text[i][1], board.value[text[i][1]]>>]
\* request_write: the sources are captured again; a missing one ends the export.
RequestWrite(path, overwrite) ==
  \/ /\ ThoughtsOf(ui.text) \subseteq board.live
     /\ StartWrite("ui", path, Recaptured(ui.text), overwrite)
     /\ ui' = [ui EXCEPT !.stage = "writing", !.text = Recaptured(ui.text), !.listing = NoListing]
     /\ UNCHANGED <<target, staged, left, lost>>
  \/ ~(ThoughtsOf(ui.text) \subseteq board.live) /\ ui' = NoExport /\ UNCHANGED <<fileVars, writer>>
CommitPath ==
  /\ ui.stage = "path" /\ ui.field \in Paths
  /\ RequestWrite(ui.field, [kind |-> "refuse"]) /\ UNCHANGED <<allowed, exports>>

\* choose_export_replacement: the file the user was shown may be replaced.
ChooseReplacement ==
  /\ ui.stage = "confirm" /\ UNCHANGED exports
  /\ \/ RequestWrite(ui.field, [kind |-> "confirmed", id |-> ui.existing])
        /\ allowed' = allowed \cup {ui.existing}
     \/ ui' = [ui EXCEPT !.stage = "path"] /\ UNCHANGED <<fileVars, writer>>
CancelExport ==
  /\ ui.stage \in {"path", "confirm"} /\ ui' = NoExport /\ UNCHANGED <<fileVars, writer, exports>>

\* complete_export_write: success applies the disposition, an existing file
\* asks, anything else returns to the path.
CompleteWrite ==
  /\ writer["ui"].pc = "done" /\ ui.stage = "writing"
  /\ writer' = [writer EXCEPT !["ui"] = NoWrite]
  /\ LET e == writer["ui"].error
     IN CASE e.kind = "none" -> ui' = NoExport /\ CompleteExport(ui.text, ui.disposition)
          [] e.kind = "exists" ->
               /\ ui' = [ui EXCEPT !.stage = "confirm", !.existing = e.id]
               /\ UNCHANGED boardVars
          [] OTHER -> ui' = [ui EXCEPT !.stage = "path"] /\ UNCHANGED boardVars
  /\ UNCHANGED <<fileVars, cli, accepted, durable, counters>>

Dialog ==
  /\ \/ \E S \in SUBSET Thoughts, d \in Dispositions : BeginExport(S, d)
     \/ \E p \in Paths : EditField(p)
     \/ AskListing \/ CompleteListing \/ CommitPath \/ ChooseReplacement \/ CancelExport
  /\ UNCHANGED <<boardVars, cli, accepted, durable, foreign, changes, faults>>

------------------------------------------------------------------------------
(* The command.                                                            *)

\* An operation identity already recorded is answered from its record; else
\* the file is written, an identical one being enough for a retried identity.
CliOverwrite(identified, replace) ==
  [kind |-> IF replace THEN "always" ELSE IF identified THEN "identical" ELSE "refuse"]
BeginCommand(S, disposition, identified, replace) ==
  /\ cli = NoExport /\ exports < MaxExports /\ exports' = exports + 1
  /\ S # {} /\ identified => disposition # "keep"
  /\ \/ identified /\ S \in accepted /\ UNCHANGED <<cli, writer, clock>>
     \/ /\ ~(identified /\ S \in accepted) /\ S \subseteq board.live
        /\ \E p \in Paths : StartWrite("cli", p, TextOf(S), CliOverwrite(identified, replace))
        /\ cli' = [stage |-> "writing", disposition |-> disposition, text |-> TextOf(S), identified |-> identified]
  /\ UNCHANGED <<boardVars, target, staged, left, lost, allowed, ui, accepted, durable, foreign, changes, faults>>

\* commit: the owner or the store checks the sources against what was written.
CommitCommand ==
  /\ writer["cli"].pc = "done" /\ cli.stage = "writing"
  /\ writer' = [writer EXCEPT !["cli"] = NoWrite] /\ cli' = NoExport
  /\ IF writer["cli"].error.kind = "none"
     THEN /\ CompleteExport(cli.text, cli.disposition)
          /\ accepted' = IF cli.identified /\ CanComplete(cli.text)
                         THEN accepted \cup {ThoughtsOf(cli.text)} ELSE accepted
     ELSE UNCHANGED <<boardVars, accepted>>
  /\ UNCHANGED <<fileVars, ui, durable, counters>>

\* The command is killed after its file is in place and before its commit.
KillCommand ==
  /\ writer["cli"].pc \in {"sync", "done"} /\ cli.stage = "writing" /\ Fault
  /\ writer' = [writer EXCEPT !["cli"] = NoWrite] /\ cli' = NoExport
  /\ UNCHANGED <<boardVars, fileVars, ui, accepted, durable, exports, foreign, changes>>

Command ==
  \/ \E S \in SUBSET Thoughts, d \in Dispositions, i \in BOOLEAN, r \in BOOLEAN : BeginCommand(S, d, i, r)
  \/ CommitCommand
  \/ KillCommand

------------------------------------------------------------------------------
(* What happens to the board meanwhile.                                    *)

ChangeBoard ==
  /\ changes < MaxChanges /\ changes' = changes + 1
  /\ \/ \E t \in board.live \ board.locked, v \in 1..MaxValue :
          ~board.failed /\ v # board.value[t] /\ board' = [board EXCEPT !.value[t] = v]
     \/ \E t \in board.live \ board.locked : ~board.failed
          /\ board' = [board EXCEPT !.live = @ \ {t}]
     \/ ~board.failed /\ Cardinality(board.live) > 1 /\ board' = [board EXCEPT !.order = Reverse(@)]
     \/ \E t \in board.live : board' = [board EXCEPT !.locked = IF t \in @ THEN @ \ {t} ELSE @ \cup {t}]
     \/ board' = [board EXCEPT !.failed = ~@]
  /\ UNCHANGED <<removed, fileVars, ui, cli, writer, accepted, durable, exports, foreign, faults>>

Next ==
  \/ Dialog \/ Command \/ CompleteWrite \/ ForeignChange \/ ChangeBoard
  \/ \E w \in Writers : Write(w)

Spec == Init /\ [][Next]_vars

------------------------------------------------------------------------------
(* Properties.                                                             *)

\* Type invariant of the export flow.
TypeOK ==
  /\ board.live \subseteq Thoughts /\ board.value \in [Thoughts -> 1..MaxValue]
  /\ ui.stage \in {"none", "path", "writing", "confirm"} /\ cli.stage \in {"none", "writing"}
  /\ \A w \in Writers : staged[w] # Absent => writer[w].pc \in {"verify", "restore"}
  /\ \A w \in Writers : writer[w].pc = "done" => (IF w = "ui" THEN ui ELSE cli).stage = "writing"

\* What an export takes from the board is exactly a text, of those thoughts in
\* that order, that a writer reported as durably written.
RemovedIsOnDisk == removed \subseteq durable

\* No file is deleted by an export except one that the user was shown and
\* agreed to replace, or a regular file under --replace-existing: whatever
\* other programs put at the path between the calls is put back, or left under
\* a name that is reported.
ForeignFileKept == lost \subseteq allowed

\* An export (ui/app/export, adapters/export): thoughts go when their text is on disk, and a file
\* that another program wrote is replaced only by consent.
ExportSafe == TypeOK /\ RemovedIsOnDisk /\ ForeignFileKept
==============================================================================
