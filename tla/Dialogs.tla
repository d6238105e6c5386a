------------------------------- MODULE Dialogs -------------------------------
(***************************************************************************)
(* Confirmation dialogs, toasts and the host's bottom sheet (ui.tsx): the  *)
(* promise behind a dialog, and the focus, which two focus traps move on   *)
(* every rendering, since each is given a new onEscape every time.  The    *)
(* sheet's page renders with each poll of the audio alerts, the dialog's   *)
(* parent with each toast that comes or goes.                              *)
(***************************************************************************)
EXTENDS Naturals

CONSTANTS
    Asks,     \* calls of confirm(), each with what is done on a yes
    None,     \* no dialog
    MaxToasts \* bound: toasts on the screen together

DialogsAssumption == None \notin Asks /\ MaxToasts \in Nat

VARIABLES
    sheet,  \* is the bottom sheet open
    shown,  \* the ask whose dialog is shown
    ask,    \* the promise of each ask
    focus,  \* document.activeElement
    before, \* prev of each trap: the element focused before it
    toasts

vars == <<sheet, shown, ask, focus, before, toasts>>

InSheet  == {"tab", "input", "ban"}
InDialog == {"cancel", "confirm"}
Elements == {"page"} \cup InSheet \cup InDialog

TypeOK ==
    /\ sheet \in BOOLEAN /\ shown \in Asks \cup {None}
    /\ ask \in [Asks -> {"new", "waiting", "yes", "no"}]
    /\ focus \in Elements
    /\ before \in [{"sheet", "dialog"} -> Elements]
    /\ toasts \in 0 .. MaxToasts

Init ==
    /\ sheet = FALSE /\ shown = None
    /\ ask = [a \in Asks |-> "new"]
    /\ focus = "page" /\ before = [t \in {"sheet", "dialog"} |-> "page"]
    /\ toasts = 0

-----------------------------------------------------------------------------
(* The trap's effect: remember the focus, take it; give it back.           *)

First(t) == IF t = "sheet" THEN "tab" ELSE "cancel"

Enter(t) == before' = [before EXCEPT ![t] = focus] /\ focus' = First(t)

\* focus() does nothing to an element that is gone; the body has the focus then.
There(e) == \/ e = "page"
            \/ e \in InSheet /\ sheet'
            \/ e \in InDialog /\ shown' # None
GiveBack(t) == focus' = (IF There(before[t]) THEN before[t] ELSE "page") /\ UNCHANGED before

\* Clean-up and effect in one: prev is what the clean-up has just focused.
ForgetsOpener(t) == Enter(t)
Again(t)         == focus' = First(t) /\ UNCHANGED before

-----------------------------------------------------------------------------
(* The host.                                                               *)

OpenSheet ==
    /\ ~sheet /\ shown = None
    /\ sheet' = TRUE
    /\ Enter("sheet")
    /\ UNCHANGED <<shown, ask, toasts>>

\* Escape in the sheet, or a click beside it; a dialog covers what is beside it.
CloseSheet ==
    /\ sheet /\ (shown = None \/ focus \in InSheet)
    /\ sheet' = FALSE
    /\ UNCHANGED <<shown, ask, toasts>>
    /\ GiveBack("sheet")

\* A click reaches what no backdrop covers; Tab goes on from where the focus is.
MoveFocus(e) ==
    /\ \/ e \in InSheet /\ sheet /\ (shown = None \/ focus \in InSheet)
       \/ e \in InDialog /\ shown # None
    /\ focus' = e
    /\ UNCHANGED <<sheet, shown, ask, before, toasts>>

\* askConfirm: by a button of the page, or of the sheet if that is open.
Ask(a) ==
    /\ ask[a] = "new"
    /\ \/ ~sheet /\ shown = None
       \/ sheet /\ focus = "ban"
    /\ shown' = a
    /\ ask' = [ask EXCEPT ![a] = "waiting"]
    /\ IF shown = None THEN Enter("dialog") ELSE Again("dialog")
    /\ UNCHANGED <<sheet, toasts>>

\* resolveConfirm, of the ask that is shown.
Resolve(v) ==
    /\ shown # None
    /\ ask' = [ask EXCEPT ![shown] = v]
    /\ shown' = None
    /\ UNCHANGED <<sheet, toasts>>
    /\ GiveBack("dialog")

\* A yes is followed by a call, and that by a toast.
Toast ==
    /\ toasts < MaxToasts /\ \E a \in Asks : ask[a] = "yes"
    /\ toasts' = toasts + 1
    /\ IF shown # None THEN Again("dialog") ELSE UNCHANGED <<focus, before>>
    /\ UNCHANGED <<sheet, shown, ask>>

ToastExpires ==
    /\ toasts > 0
    /\ toasts' = toasts - 1
    /\ IF shown # None THEN Again("dialog") ELSE UNCHANGED <<focus, before>>
    /\ UNCHANGED <<sheet, shown, ask>>

\* A poll of the alerts: the page renders, and the sheet with it.
PageRenders ==
    /\ sheet
    /\ Again("sheet")
    /\ UNCHANGED <<sheet, shown, ask, toasts>>

Next ==
    \/ OpenSheet \/ CloseSheet \/ PageRenders
    \/ \E e \in Elements : MoveFocus(e)
    \/ \E a \in Asks : Ask(a)
    \/ \E v \in {"yes", "no"} : Resolve(v)
    \/ Toast \/ ToastExpires

Spec == Init /\ [][Next]_vars
-----------------------------------------------------------------------------
\* Whatever was rendered meanwhile, and in whichever order sheet and dialog went:
\* the focus is in the sheet while that is open, and back on the page afterwards.
FocusReturns == shown = None => focus \in (IF sheet THEN InSheet ELSE {"page"})
=============================================================================
