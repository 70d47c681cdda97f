---------------------------- MODULE DraftWindows ----------------------------
(***************************************************************************)
(* Gmail drafts through the content script (apps/extension/src/adapters/   *)
(* google.ts over content/dom-automation.ts).  composeDraft() clicks       *)
(* "compose", waits for a recipient field and types into three fields;     *)
(* sendDraft() sends the open draft.  Every field is found anew, as the    *)
(* FIRST match of a selector in the document, and acted on 120 ms later.   *)
(* The listener of bootstrap.ts starts an action when its message comes,   *)
(* whether or not another one is under way.  The page is the user's too:   *)
(* by hand, or with the generic click and type actions, windows are opened,*)
(* edited, closed and sent.  Gmail's windows are external.                 *)
(***************************************************************************)
EXTENDS Naturals, Sequences, SequencesExt

CONSTANTS
  Mail,       \* what the compose actions write
  Window,     \* compose windows Gmail may open
  NoMail,     \* a field that is empty or has another text than a mail's
  NoWindow

ASSUME DraftAssumption == NoMail \notin Mail /\ NoWindow \notin Window

VARIABLES
  page,       \* the open compose windows, in document order
  whole,      \* windows whose subject and body fields are drawn as well
  fields,     \* what is typed into the fields of a window
  opening,    \* clicks on "compose" Gmail has not answered yet
  compose,    \* where composeDraft() stands, by its mail
  target,     \* the element typeInto() has found and is about to fill
  sent,       \* history: what sendDraft() sent of windows no hand has touched
  touched,    \* history: the windows a hand has edited
  handed,     \* history: the mails whose letter a hand has edited, closed or sent
  calm        \* history: every compose had the page to itself, and found it all

draftVars == <<page, whole, fields, opening, compose, target, sent, touched, handed, calm>>

Field == {"to", "subject", "body"}
Blank == [f \in Field |-> NoMail]
Letter(m) == [f \in Field |-> m]
Opened == {page[i] : i \in DOMAIN page}

DraftInit ==
  /\ page = <<>>
  /\ whole = {}
  /\ fields = [w \in Window |-> Blank]
  /\ opening = 0
  /\ compose = [m \in Mail |-> "idle"]
  /\ target = [m \in Mail |-> NoWindow]
  /\ sent = {} /\ touched = {} /\ handed = {}
  /\ calm = TRUE

-----------------------------------------------------------------------------
(* dom-automation.ts: findElement() is the first match in the document. *)

Has(w, f) == f = "to" \/ w \in whole
PlacesOf(f) == {i \in DOMAIN page : Has(page[i], f)}
FirstWith(f) == IF PlacesOf(f) = {} THEN NoWindow ELSE page[Min(PlacesOf(f))]

(* typeInto() of the next field looks it up; a field that is not there is   *)
(* passed over, the result is not looked at.                                *)
Find(m, f) ==
  /\ target' = [target EXCEPT ![m] = FirstWith(f)]
  /\ compose' = [compose EXCEPT ![m] = f]
  /\ calm' = (calm /\ FirstWith(f) # NoWindow)

Ends(m, how) ==
  /\ compose' = [compose EXCEPT ![m] = how]
  /\ target' = [target EXCEPT ![m] = NoWindow]

(* No composeDraft() is under way. *)
NoneComposes == \A m \in Mail : compose[m] \in {"idle", "done", "failed"}

(* runAction() for gmailComposeDraft: the button is found and clicked. *)
ClickCompose(m) ==
  /\ compose[m] = "idle"
  /\ compose' = [compose EXCEPT ![m] = "opening"]
  /\ opening' = opening + 1
  /\ calm' = (calm /\ page = <<>> /\ opening = 0 /\ NoneComposes)
  /\ UNCHANGED <<page, whole, fields, target, sent, touched, handed>>

(* waitForSelector(TO_FIELD): any recipient field will do. *)
FindRecipient(m) ==
  /\ compose[m] = "opening"
  /\ page # <<>>
  /\ Find(m, "to")
  /\ UNCHANGED <<page, whole, fields, opening, sent, touched, handed>>

(* waitForSelector() gives up after its timeout, and composeDraft() throws. *)
RecipientTimeout(m) ==
  /\ compose[m] = "opening"
  /\ page = <<>>
  /\ Ends(m, "failed")
  /\ UNCHANGED <<page, whole, fields, opening, sent, touched, handed, calm>>

(* The pause is over: the element found before it is filled, if the window  *)
(* is still there, and the next field is looked up.                         *)
Fill(m) ==
  IF target[m] \in Opened
  THEN fields' = [fields EXCEPT ![target[m]][compose[m]] = m]
  ELSE UNCHANGED fields

(* Mutant: composeDraft() does not await the last field. *)
NextStep_Unawaited(f) == IF f = "to" THEN "subject" ELSE "done"

(* The order of composeDraft(). *)
NextStep(f) ==
  CASE f = "to" -> "subject" [] f = "subject" -> "body" [] OTHER -> "done"

TypeField(m) ==
  /\ compose[m] \in Field
  /\ Fill(m)
  /\ LET next == NextStep(compose[m]) IN
     \/ next \in Field /\ Find(m, next)
     \/ next = "done" /\ Ends(m, "done") /\ UNCHANGED calm
  /\ UNCHANGED <<page, whole, opening, sent, touched, handed>>

(* sendDraft() sends the window of the first body field of the document, or *)
(* throws when there is none.                                               *)
SendTarget == FirstWith("body")

SendDraft ==
  /\ PlacesOf("body") # {}
  /\ page' = RemoveAt(page, Min(PlacesOf("body")))
  /\ sent' = IF SendTarget \in touched THEN sent ELSE sent \cup {fields[SendTarget]}
  /\ calm' = (calm /\ NoneComposes)
  /\ UNCHANGED <<whole, fields, opening, compose, target, touched, handed>>

-----------------------------------------------------------------------------
(* Gmail: a click opens a window in the end, in front of the others or      *)
(* behind them, with its recipient field first.                             *)
OpenWindow(w) ==
  /\ opening > 0
  /\ w \notin Opened /\ fields[w] = Blank /\ w \notin whole \cup touched
  /\ opening' = opening - 1
  /\ page' \in {Append(page, w), <<w>> \o page}
  /\ UNCHANGED <<whole, fields, compose, target, sent, touched, handed, calm>>

DrawWindow(w) ==
  /\ w \in Opened \ whole
  /\ whole' = whole \cup {w}
  /\ UNCHANGED <<page, fields, opening, compose, target, sent, touched, handed, calm>>

-----------------------------------------------------------------------------
(* The user, or a generic click or type action, opens a window (bound: two  *)
(* clicks are unanswered at most).                                          *)
OpenByHand ==
  /\ opening <= 1
  /\ opening' = opening + 1
  /\ calm' = (calm /\ page = <<>> /\ opening = 0 /\ NoneComposes)
  /\ UNCHANGED <<page, whole, fields, compose, target, sent, touched, handed>>

(* The mails whose letter is in the window. *)
LettersIn(w) == {m \in Mail : fields[w] = Letter(m)}

(* Another text is put into a field of a window. *)
EditByHand(w, f) ==
  /\ w \in Opened
  /\ fields' = [fields EXCEPT ![w][f] = NoMail]
  /\ touched' = touched \cup {w}
  /\ handed' = handed \cup LettersIn(w)
  /\ calm' = (calm /\ NoneComposes)
  /\ UNCHANGED <<page, whole, opening, compose, target, sent>>

(* A window is closed or sent. *)
CloseByHand(i) ==
  /\ page' = RemoveAt(page, i)
  /\ handed' = handed \cup LettersIn(page[i])
  /\ calm' = (calm /\ NoneComposes)
  /\ UNCHANGED <<whole, fields, opening, compose, target, sent, touched>>

DraftNext ==
  \/ \E m \in Mail : \/ ClickCompose(m) \/ FindRecipient(m)
                     \/ RecipientTimeout(m) \/ TypeField(m)
  \/ SendDraft
  \/ \E w \in Window : OpenWindow(w) \/ DrawWindow(w)
  \/ OpenByHand
  \/ \E w \in Window, f \in Field : EditByHand(w, f)
  \/ \E i \in DOMAIN page : CloseByHand(i)

DraftSpec == DraftInit /\ [][DraftNext]_draftVars

-----------------------------------------------------------------------------
DraftTypeOK ==
  /\ page \in Seq(Window)
  /\ whole \subseteq Window
  /\ fields \in [Window -> [Field -> Mail \cup {NoMail}]]
  /\ opening \in Nat
  /\ compose \in [Mail -> {"idle", "opening", "done", "failed"} \cup Field]
  /\ target \in [Mail -> Window \cup {NoWindow}]
  /\ sent \subseteq [Field -> Mail \cup {NoMail}]
  /\ touched \subseteq Window /\ handed \subseteq Mail
  /\ calm \in BOOLEAN

(* As long as every compose had the page to itself, from its click to its   *)
(* last field, and found its fields: a draft that was reported prepared is  *)
(* whole in a window, or sent as it was, or a hand has taken its letter.    *)
(* What hands do to the page between two composes is no exception.          *)
CalmDraftsAreWhole ==
  calm => \A m \in Mail : compose[m] = "done" =>
            \/ \E w \in Opened : fields[w] = Letter(m)
            \/ Letter(m) \in sent
            \/ m \in handed

(* Then sendDraft() sends, of windows no hand has touched, whole letters    *)
(* only, or one that has nothing in it yet.                                 *)
CalmSendsAreWhole ==
  calm => \A s \in sent : s = Blank \/ \E m \in Mail : s = Letter(m)

(* What is left in the page and what is sent are whole letters. *)
CalmMailIsWhole == CalmDraftsAreWhole /\ CalmSendsAreWhole
=============================================================================
