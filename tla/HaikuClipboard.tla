--------------------------- MODULE HaikuClipboard ---------------------------
(***************************************************************************)
(* The clipboard of a browser process: HaikuClipboard on the UI thread and *)
(* the looper that watches the system's clipboard for it                   *)
(* (haiku_clipboard.cc, ClipboardChangeWatcher in haiku_beapi_views.cc).   *)
(*                                                                         *)
(* Haiku tells every watcher of every change, the one who made it          *)
(* included; the watcher posts a task to the UI thread, where it meets     *)
(* whatever the process has put on the clipboard meanwhile.  What is on it *)
(* is left out: changes are counted.                                       *)
(***************************************************************************)
EXTENDS HaikuWindow

VARIABLES
    owner,      \* who changed the system's clipboard last
    changes,    \* how often it was changed
    alerts,     \* B_CLIPBOARD_CHANGED messages the watcher has to handle
    isOwner,    \* is_owner_
    seen        \* changes, as of the last run of clipboard_data_changed_cb_

clipVars == <<owner, changes, alerts, isOwner, seen>>

ClipboardInit ==
    /\ owner = "other"
    /\ changes = 0
    /\ alerts = 0
    /\ isOwner = FALSE
    /\ seen = 0

(* A change, by anyone: the system's clipboard sends the watcher a message.*)
Upload(who) ==
    /\ owner' = who
    /\ changes' = changes + 1
    /\ alerts' = alerts + 1

(* OfferClipboardData: when the clipboard can be locked it is this         *)
(* process's, and the callback runs in any case.  Commit's result is not   *)
(* looked at; it can only fail with the registrar gone.                    *)
OfferClipboardData ==
    /\ UiFree
    /\ \/ Upload("this") /\ isOwner' = TRUE
       \/ UNCHANGED <<owner, changes, alerts, isOwner>>
    /\ seen' = changes'
    /\ UNCHANGED windowVars

OthersUpload ==
    /\ Upload("other")
    /\ UNCHANGED <<isOwner, seen, windowVars>>

(* The watcher's looper.                                                   *)
ClipboardChanged ==
    /\ alerts > 0
    /\ alerts' = alerts - 1
    /\ tasks' = Append(tasks, Task("clipboard", NoWindow))
    /\ UNCHANGED <<owner, changes, isOwner, seen, life, native, bounds,
                   known, moved, Env, canvas, frame>>

(* A slip: a message is taken for the echo of the process's own change as  *)
(* long as it is the owner.                                                *)
OnChangedUnlessOwner ==
    /\ NextTask("clipboard")
    /\ seen' = IF isOwner THEN seen ELSE changes
    /\ tasks' = Tail(tasks)
    /\ UNCHANGED <<owner, changes, alerts, isOwner, life, native, bounds,
                   known, moved, Env, canvas, frame>>

(* OnClipboardChangedExternally; it does not ask who made the change.      *)
OnClipboardChangedExternally ==
    /\ NextTask("clipboard")
    /\ isOwner' = FALSE
    /\ seen' = changes
    /\ tasks' = Tail(tasks)
    /\ UNCHANGED <<owner, changes, alerts, life, native, bounds, known,
                   moved, Env, canvas, frame>>

(* The process is gone; the next one starts anew.                          *)
ClipboardDies ==
    /\ owner' = "other"
    /\ alerts' = 0
    /\ isOwner' = FALSE
    /\ seen' = changes
    /\ UNCHANGED changes

-----------------------------------------------------------------------------
ClipboardTypeOK ==
    /\ owner \in {"this", "other"}
    /\ changes \in Nat
    /\ alerts \in Nat
    /\ isOwner \in BOOLEAN
    /\ seen \in 0 .. changes

(* News of the clipboard is on its way.                                    *)
Alerted ==
    \/ alerts > 0
    \/ \E i \in 1 .. Len(tasks) : tasks[i].kind = "clipboard"

(* Chromium takes the clipboard's content for its own, and answers pastes  *)
(* from what it offered, only while that is so or news of another's change *)
(* is on its way; and it misses no change ("the content changed, update    *)
(* whatever depends on it", haiku_clipboard.h).                            *)
ClipboardFollows ==
    ~Alerted => /\ isOwner => owner = "this"
                /\ seen = changes

=============================================================================
