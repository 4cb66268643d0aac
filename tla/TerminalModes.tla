--------------------------- MODULE TerminalModes ---------------------------
(***************************************************************************)
(* Terminal modes entered and left by the interactive process              *)
(* (adapters/terminal/control, runner, runner/finish).                     *)
(*                                                                         *)
(* Entering stops at the first command that fails; leaving attempts every  *)
(* command whose mode is noted as entered.  What the terminal is in and    *)
(* what the process notes are two things, and the property is about the    *)
(* first.                                                                  *)
(***************************************************************************)
EXTENDS Integers, Sequences, FiniteSets

CONSTANTS MouseCapture,   \* the mouse_capture setting
          MaxFaults       \* bound on terminal commands that fail

VARIABLES pc,       \* what the process does next
          active,   \* modes the terminal is in
          enabled,  \* CrosstermControl.enabled
          guarded,  \* the guard still restores when it is dropped
          hooked,   \* the panic hook is installed
          faults,
          broken    \* a command failed after the modes were entered

vars == <<pc, active, enabled, guarded, hooked, faults, broken>>

Init ==
  /\ pc = "raw" /\ active = {} /\ enabled = {} /\ guarded = FALSE
  /\ hooked = FALSE /\ faults = 0 /\ broken = FALSE

Fault == faults < MaxFaults /\ faults' = faults + 1
NoFault == UNCHANGED faults

\* enter, command by command.  The alternate screen is noted only once the
\* commands after it have succeeded, focus and keyboard reporting are optional.
\* A failed command leads to restore inside TerminalGuard::enter.
Required(step, modes, noted, next) ==
  /\ pc = step
  /\ \/ NoFault /\ active' = active \cup modes /\ enabled' = enabled \cup noted /\ pc' = next
     \/ Fault /\ pc' = "abandon" /\ UNCHANGED <<active, enabled>>
  /\ UNCHANGED <<guarded, hooked, broken>>
EnterRaw == Required("raw", {"raw"}, {"raw"}, "screen")
EnterScreen == Required("screen", {"screen"}, {}, "mouse")
EnterMouse ==
  IF MouseCapture THEN Required("mouse", {"mouse"}, {"mouse"}, "paste")
  ELSE pc = "mouse" /\ pc' = "paste" /\ UNCHANGED <<active, enabled, guarded, hooked, faults, broken>>
EnterPaste == Required("paste", {"paste", "cursor"}, {"screen"}, "focus")
Optional(step, mode, next) ==
  /\ pc = step /\ pc' = next
  /\ \/ NoFault /\ active' = active \cup {mode} /\ enabled' = enabled \cup {mode}
     \/ Fault /\ UNCHANGED <<active, enabled>>
  /\ UNCHANGED <<guarded, hooked, broken>>
EnterFocus == Optional("focus", "focus", "keyboard")
EnterKeyboard == Optional("keyboard", "keyboard", "entered")

\* TerminalGuard::enter returned; the panic hook and the signals follow.
Guard ==
  /\ pc = "entered" /\ pc' = "run"
  /\ guarded' = TRUE /\ hooked' = TRUE
  /\ UNCHANGED <<active, enabled, faults, broken>>

\* Modes each note stands for when it is undone; the cursor is always shown.
Undoes(note) == IF note = "screen" THEN {"screen", "paste"} ELSE {note}
Undone(notes) == {"cursor"} \cup UNION {Undoes(n) : n \in notes}
\* restore: every noted mode is attempted, a failing command is remembered and
\* its mode is no longer noted.
Restored(failing) == active \ (Undone(enabled) \ failing)
Restore(next, nextIfFailed) ==
  \/ /\ NoFault /\ active' = Restored({}) /\ enabled' = {} /\ pc' = next
     /\ UNCHANGED broken
  \/ /\ Fault
     /\ \E m \in Undone(enabled) : active' = Restored({m})
     /\ enabled' = {} /\ pc' = nextIfFailed
     /\ broken' = TRUE
\* Setup failed: restored once, and the error is returned.
Abandon ==
  /\ pc = "abandon" /\ Restore("ended", "ended")
  /\ UNCHANGED <<guarded, hooked>>

\* The runner leaves: finish restores, the guard's drop tries again when it
\* failed, and the panic hook is removed.
Finish ==
  /\ pc = "run" /\ Restore("unhook", "drop")
  /\ UNCHANGED <<guarded, hooked>>
Drop ==
  /\ pc \in {"drop", "unwind"} /\ guarded /\ guarded' = FALSE
  /\ Restore(IF pc = "drop" THEN "unhook" ELSE "ended", IF pc = "drop" THEN "unhook" ELSE "ended")
  /\ UNCHANGED hooked
Unhook ==
  /\ pc = "unhook" /\ pc' = "ended" /\ hooked' = FALSE
  /\ UNCHANGED <<active, enabled, guarded, faults, broken>>

\* emergency_restore from the panic hook knows no notes: it undoes all but a mouse
\* capture the settings never asked for.
\* Mutated form: the panic hook leaves bracketed paste to the guard.
EmergencyWithoutPaste ==
  {"cursor", "keyboard", "focus", "screen", "raw"}
    \cup (IF MouseCapture THEN {"mouse"} ELSE {})
EmergencyModes ==
  {"cursor", "keyboard", "focus", "paste", "screen", "raw"}
    \cup (IF MouseCapture THEN {"mouse"} ELSE {})
Panic ==
  /\ pc = "run" /\ hooked /\ pc' = "unwind"
  /\ \/ NoFault /\ active' = active \ EmergencyModes /\ UNCHANGED broken
     \/ /\ Fault /\ broken' = TRUE
        /\ \E m \in EmergencyModes : active' = active \ (EmergencyModes \ {m})
  /\ UNCHANGED <<enabled, guarded, hooked>>

Next ==
  \/ EnterRaw \/ EnterScreen \/ EnterMouse \/ EnterPaste \/ EnterFocus \/ EnterKeyboard
  \/ Guard \/ Abandon \/ Finish \/ Drop \/ Unhook \/ Panic
Spec == Init /\ [][Next]_vars

TypeOK ==
  /\ enabled \subseteq {"raw", "screen", "mouse", "focus", "keyboard"}
  /\ active \subseteq enabled \cup {"raw", "screen", "mouse", "focus", "keyboard", "paste", "cursor"}
  /\ guarded \in BOOLEAN /\ hooked \in BOOLEAN /\ broken \in BOOLEAN

\* Once the modes were entered, leaving them by finish and leaving them by the
\* panic hook both undo every one, by two different lists of commands, optional
\* modes that could not be entered included.  A command that fails on the way out
\* leaves on what it alone should have undone.
OrderlyExitRestores ==
  pc \in {"drop", "unhook", "unwind"} =>
    /\ \A m, n \in active : m = n
    /\ ~broken => active = {}

\* Terminal modes (adapters/terminal/control): an orderly exit leaves the terminal as it was.
TerminalModesSafe == TypeOK /\ OrderlyExitRestores
=============================================================================
