------------------------------- MODULE WebApp -------------------------------
(***************************************************************************)
(* The page of the web interface (static/js/app.js) and the server behind   *)
(* it.  The page runs on one event loop: a click runs up to its await of    *)
(* fetch(), the answer runs the rest, and other clicks, and the answers to  *)
(* them, may come in between.  The server has several handler threads, so   *)
(* requests are handled and answered in any order; a connection may be lost *)
(* before the request is handled or before the answer arrives.              *)
(*                                                                         *)
(* A slot of calls is one chain of the page: the call a click makes and the *)
(* load that follows its success.  The handlers of user settings and media  *)
(* locations are one step each on one table; ConfigServer has the others.   *)
(***************************************************************************)
EXTENDS ConfigServer, FiniteSets

CONSTANTS
  Texts,      \* what the user types into the forms
  Visits,     \* the sets of sections of the page that a user works in
  MaxClicks   \* bound: clicks that send a request, and edits of the file

\* The slots are numbers: the first three are those of the loads of the page
\* when it opens, and a new chain takes the first that is free.
ASSUME SlotsAssumption == Slots \subseteq Nat /\ IsFiniteSet(Slots) /\ 1 .. 3 \subseteq Slots

\* An empty form holds none of the texts.
ASSUME PageAssumption == Nothing \notin Texts /\ MaxClicks \in Nat

VARIABLES
  sections,   \* the sections the user works in; only their loads are followed
  stored,     \* the table user_settings: what is stored, of each kind
  grid,       \* the values displayed in config-grid
  form,       \* the text in new-setting-key and -value, and in media-path
  late,       \* history: forms typed into while a call with their text is out
  note,       \* the notification of the last chain of each slot
  crossed,    \* history: a click was made while another call was out
  clicks      \* how many clicks have sent a request

page == <<sections, grid, form, late, note, crossed, clicks>>
vars == <<config, calls, stored, page>>

Forms == {"settings", "media"}

Loads  == {"get_config", "tpm_status", "list_settings"}
Adds   == {"put_setting", "register"}
Drops  == {"delete_setting", "deregister"}

FormOf(op) == IF op \in {"put_setting", "delete_setting"} THEN "settings" ELSE "media"

\* What apiCall() has sent and not yet dealt with.
Out == { s \in Slots : ~ At(s, "free") }

-----------------------------------------------------------------------------
(* The server's handlers of the other paths.                               *)

\* The row of the key is written, or the statement fails.
StoreText(s) ==
  LET call == calls[s]
  IN  /\ At(s, "sent") /\ call.op \in Adds
      /\ \/ /\ stored' = [stored EXCEPT ![FormOf(call.op)] = @ \cup {call.key}]
            /\ Move(s, Answer(call, "ok"))
         \/ /\ Move(s, Answer(call, "refused"))
            /\ UNCHANGED stored
      /\ UNCHANGED <<config, page>>

DropText(s) ==
  LET call == calls[s]
  IN  /\ At(s, "sent") /\ call.op \in Drops
      /\ \/ /\ stored' = [stored EXCEPT ![FormOf(call.op)] = @ \ {call.key}]
            /\ Move(s, Answer(call, "ok"))
         \/ /\ Move(s, Answer(call, "refused"))
            /\ UNCHANGED stored
      /\ UNCHANGED <<config, page>>

ListUserSettings(s) ==
  /\ At(s, "sent") /\ calls[s].op = "list_settings"
  /\ Move(s, Answer(calls[s], "ok"))
  /\ UNCHANGED <<config, stored, page>>

\* No handler serves /api/v1/tpm/status: 501.
NoHandler(s) ==
  /\ At(s, "sent") /\ calls[s].op = "tpm_status"
  /\ Move(s, Answer(calls[s], "refused"))
  /\ UNCHANGED <<config, stored, page>>

\* The connection is lost before the request is handled, or on the way back.
Lose(s) ==
  /\ \/ At(s, "sent")
     \/ At(s, "answered") /\ calls[s].reply = "ok" /\ calls[s].op \notin Loads
  /\ Move(s, [Answer(calls[s], "lost") EXCEPT !.copy = Empty])
  /\ UNCHANGED <<config, stored, page>>

-----------------------------------------------------------------------------
(* apiCall().                                                              *)

Request(op, key, value) ==
  [Idle EXCEPT !.at = "sent", !.op = op, !.key = key, !.value = value]

\* Mutant: response.ok is not looked at.
AnyResponse(call) == call.reply # "lost"

\* apiCall() returns the body; otherwise it shows the error and returns null.
Succeeded(call) == call.reply = "ok"

FreeSlot(s) == s \notin Out /\ \A r \in Slots \ Out : s <= r

\* A click that sends a request.
Click(s, section, op, key, value) ==
  /\ section \in sections
  /\ clicks + edits < MaxClicks
  /\ FreeSlot(s)
  /\ clicks' = clicks + 1
  /\ Move(s, Request(op, key, value))
  /\ note' = [note EXCEPT ![s] = "none"]
  /\ crossed' = (crossed \/ Out # {})
  /\ UNCHANGED <<sections, config, stored, grid, form, late>>

-----------------------------------------------------------------------------
(* The buttons.                                                            *)

\* updateConfigProperty(key), with the value shown or one typed over it.
UpdateConfig(s, k, t) ==
  /\ grid # Empty
  /\ Click(s, "config", "put_config", k, t)

ReloadConfiguration(s) == Click(s, "config", "reload", Nothing, Nothing)

TypeInto(f, t) ==
  /\ f \in sections
  /\ form[f] # t
  /\ form' = [form EXCEPT ![f] = t]
  /\ late' = IF \E s \in Out : calls[s].op \in Adds \cup Drops /\ FormOf(calls[s].op) = f
               THEN late \cup {f}
               ELSE late
  /\ UNCHANGED <<sections, config, calls, stored, grid, note, crossed, clicks>>

\* A form that is empty is refused by the page itself.
AddUserSetting(s) ==
  /\ form["settings"] # Nothing
  /\ Click(s, "settings", "put_setting", form["settings"], Nothing)

RegisterMediaLocation(s) ==
  /\ form["media"] # Nothing
  /\ Click(s, "media", "register", form["media"], Nothing)

DeregisterMediaLocation(s) ==
  /\ form["media"] # Nothing
  /\ Click(s, "media", "deregister", form["media"], Nothing)

\* deleteUserSetting(key), once the user has confirmed it.
DeleteUserSetting(s, t) == Click(s, "settings", "delete_setting", t, Nothing)

-----------------------------------------------------------------------------
(* What follows the await of apiCall().                                    *)

Notify(s, kind) == note' = [note EXCEPT ![s] = kind]

\* Mutant: the page is not loaded again after an update.
NoLoadAfter(op) == "none"

\* The load that follows a success; that of the media locations is a fixed text.
LoadAfter(op) ==
  CASE op \in {"put_config", "reload"}            -> "get_config"
    [] op \in {"put_setting", "delete_setting"}   -> "list_settings"
    [] OTHER                                      -> "none"

\* Mutant: the form is cleared whatever came back.
ClearsFormAlways(call) == call.op \in Adds \cup {"deregister"}

ClearsForm(call) == Succeeded(call) /\ call.op \in Adds \cup {"deregister"}

\* Mutant: the catch clause does not tell the user.
NoError(s) == UNCHANGED note

ShowError(s) == Notify(s, "error")

\* displayConfiguration() or displayUserSettings(); an error is shown for a
\* load that failed.  The settings arrive as an object and not as an array:
\* the list is cleared, and then the display throws.
LoadReturns(s) ==
  LET call == calls[s]
  IN  /\ At(s, "answered") /\ call.op \in Loads
      /\ Move(s, Idle)
      /\ grid' = IF Succeeded(call) /\ call.op = "get_config" THEN call.copy ELSE grid
      /\ IF Succeeded(call) THEN UNCHANGED note ELSE ShowError(s)
      /\ UNCHANGED <<sections, config, stored, form, late, crossed, clicks>>

ActionReturns(s) ==
  LET call == calls[s]
      load == LoadAfter(call.op)
  IN  /\ At(s, "answered") /\ call.op \notin Loads
      /\ IF Succeeded(call) THEN Notify(s, "success") ELSE ShowError(s)
      /\ IF ClearsForm(call)
           THEN /\ form' = [form EXCEPT ![FormOf(call.op)] = Nothing]
                /\ late' = late \ {FormOf(call.op)}
           ELSE UNCHANGED <<form, late>>
      /\ Move(s, IF Succeeded(call) /\ load # "none"
                   THEN Request(load, Nothing, Nothing)
                   ELSE Idle)
      /\ UNCHANGED <<sections, config, stored, grid, crossed, clicks>>

-----------------------------------------------------------------------------
(* The page is opened: three loads are under way.                          *)

OpeningLoads == <<"get_config", "tpm_status", "list_settings">>
SectionOf    == <<"config", "tpm", "settings">>

Init ==
  /\ ConfigInit
  /\ sections \in Visits
  /\ calls = [x \in Slots \cup {Monitor} |->
                IF x \in 1 .. 3 /\ SectionOf[x] \in sections THEN Request(OpeningLoads[x], Nothing, Nothing) ELSE Idle]
  /\ stored = [f \in Forms |-> {}]
  /\ grid = Empty
  /\ form = [f \in Forms |-> Nothing]
  /\ late = {}
  /\ note = [s \in Slots |-> "none"]
  /\ crossed = FALSE
  /\ clicks = 0

ServerStep(s) ==
  \/ HandlerStep(s) /\ UNCHANGED <<stored, page>>
  \/ StoreText(s) \/ DropText(s) \/ ListUserSettings(s) \/ NoHandler(s)

PageStep(s) == LoadReturns(s) \/ ActionReturns(s)

UserStep(s) ==
  \/ \E k \in Keys, t \in Scalars : UpdateConfig(s, k, t)
  \/ ReloadConfiguration(s)
  \/ AddUserSetting(s) \/ RegisterMediaLocation(s) \/ DeregisterMediaLocation(s)
  \/ \E t \in Texts : DeleteUserSetting(s, t)

Next ==
  \/ \E s \in Slots : ServerStep(s) \/ Lose(s) \/ PageStep(s) \/ UserStep(s)
  \/ \E f \in Forms, t \in Texts : TypeInto(f, t)
  \/ /\ "config" \in sections
     /\ MonitorStep \/ (clicks + edits < MaxClicks /\ EditStep)
     /\ UNCHANGED <<stored, page>>

Spec == Init /\ [][Next]_vars

\* Handlers end, the event loop runs what is ready, and the monitor thread is
\* scheduled.  Nobody has to click, to type or to edit the file.
Fairness ==
  /\ \A s \in Slots : WF_vars(ServerStep(s)) /\ WF_vars(PageStep(s))
  /\ WF_vars(MonitorStep /\ UNCHANGED <<stored, page>>)

FairSpec == Spec /\ Fairness

-----------------------------------------------------------------------------
(* Properties.                                                             *)

Replies == {"none", "ok", "refused", "lost"}
Places == {"free", "sent", "read", "save", "truncate", "write", "parse", "load", "apply",
           "stamp", "answered"}
Ops == Loads \cup Adds \cup Drops \cup {"put_config", "reload", "none"}

CallStates ==
  [at : Places, op : Ops, key : Keys \cup Texts \cup {Nothing}, value : Scalars \cup {Nothing},
   reply : Replies, todo : SUBSET Keys, copy : [Keys -> Values \cup {Nothing}]]

\* The types: what a call sets is of the type of the property, what the file
\* holds is a text.
TypeOK ==
  /\ memory \in [Keys -> Values] /\ asked \in [Keys -> Values]
  /\ file \in [Keys -> Scalars] \cup {Empty}
  /\ changed \in BOOLEAN /\ calm \in BOOLEAN
  /\ calls \in [Slots \cup {Monitor} -> CallStates]
  /\ stored \in [Forms -> SUBSET Texts]
  /\ grid \in [Keys -> Values] \cup {Empty}
  /\ form \in [Forms -> Texts \cup {Nothing}]
  /\ note \in [Slots -> {"none", "success", "error"}]
  /\ sections \in Visits /\ late \subseteq Forms /\ crossed \in BOOLEAN
  /\ clicks \in Nat /\ edits \in 0 .. MaxEdits /\ clicks + edits <= MaxClicks

\* A user who waits for each answer, and is shown no error, sees what the
\* server has, but for the types: after an update or a reload the page is
\* loaded again, and that load is handled after the change.  What the server
\* has then differs at most by what the reload that follows a save makes of
\* the values shown.  (He works in the configuration only: a click in another
\* section would take the place of a notification.)
GridIsCurrent ==
  Out = {} /\ sections = {"config"} /\ ~ crossed /\ calm /\ edits = 0 =>
    \/ grid # Empty /\ \A k \in Keys : memory[k] \in Retyped[grid[k]]
    \/ \E s \in Slots : note[s] = "error"

\* Every click that sends a request is answered on the screen.
EveryClickIsAnswered ==
  \A s \in Slots : (~ At(s, "free") /\ calls[s].op \notin Loads) ~> note[s] # "none"

\* A text leaves its form only when a call that carried it has succeeded: an
\* error never costs the user what was typed.  (Text typed while a call of
\* that form is out is cleared with it, see late.)
TypedTextIsKept ==
  [][\A f \in Forms : form[f] # Nothing /\ form'[f] = Nothing /\ f \notin late =>
       \E s \in Slots : /\ At(s, "answered") /\ calls[s].reply = "ok"
                        /\ calls[s].key = form[f]]_vars

\* Memory and file have the value, or what it has turned into.
InForce(k, v) == Readable /\ {memory[k], Contents[k]} \subseteq Retyped[v]

Done(call) ==
  CASE call.op = "put_config" -> InForce(call.key, Typed[call.key][call.value])
    [] call.op \in Adds       -> call.key \in stored[FormOf(call.op)]
    [] call.op \in Drops      -> call.key \notin stored[FormOf(call.op)]
    [] OTHER                  -> TRUE

\* What the page reports as a success is so at that moment on the server, in
\* memory and in the file, unless the user has another call out, somebody edits
\* the file or it cannot be written: no answer that is an error, and no lost
\* one, is taken for a success, and no reload has done more to the value in the
\* meantime than to give it another type.
SuccessIsReal ==
  [][\A s \in Slots :
       /\ At(s, "answered") /\ calls[s].op \notin Loads
       /\ note'[s] = "success" /\ ~ crossed /\ calm /\ edits = 0
       => Done(calls[s])]_vars

=============================================================================
