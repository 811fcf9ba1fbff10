---------------------------- MODULE ServicesPage ----------------------------
(***************************************************************************)
(* The services page (src/src/pages/page_services.c) with the part of       *)
(* src/src/ui_controller.c that turns its answer into a control request:    *)
(* the list, the confirmation dialog and the UI state of every service.     *)
(*                                                                          *)
(* One handler is one action, with the render it ends with.  Around the     *)
(* page, UiController decides when it is drawn (`visible`) and entered      *)
(* (`page_mode`), of which only the order is kept: the page is entered and  *)
(* left while it is drawn, and stays drawn in between.  ServiceStatus       *)
(* decides what is known of a service, of which nothing is assumed.  The    *)
(* control request the page leaves behind (pending_control_index) is taken  *)
(* by the handler that caused it, so no state shows it.                     *)
(***************************************************************************)
EXTENDS Integers

CONSTANTS
  service_count,
  VISIBLE_LINES,  \* services that fit on the screen
  MAX_CONTROLS,   \* bound: starts, and stops, of one service in flight; past it they fail
  NoDialog        \* what the panel shows of a dialog that is closed

ASSUME PageAssumption ==
  /\ service_count \in Nat \ {0}
  /\ VISIBLE_LINES \in Nat \ {0}
  /\ MAX_CONTROLS \in Nat \ {0}

Service == 0 .. service_count - 1
UiState == {"STOPPED", "RUNNING", "STARTING", "STOPPING", "ERROR"}
Dialog == [index : Service, start : BOOLEAN, yes : BOOLEAN]

ASSUME NoDialogAssumption == NoDialog \notin Dialog

VARIABLES
  visible,         \* a render draws this page: screen on, page current or sliding
  page_mode,       \* ENTER: this page has the keys
  selected_index, scroll_offset,
  ui_states,
  cached_running,  \* running, as the last render saw it
  dialog,          \* TRUE: DIALOG_CONFIRM
  dialog_yes,      \* dialog_selection = 1
  panel,           \* the dialog the user sees
  running, status_valid, \* of status->services[]
  controls         \* service -> start or stop -> control requests in flight

listVars == <<selected_index, scroll_offset>>
dialogVars == <<dialog, dialog_yes>>
statusVars == <<running, status_valid>>
drawnVars == <<ui_states, cached_running, panel>>
vars == <<visible, page_mode, listVars, dialogVars, drawnVars, statusVars, controls>>

----------------------------------------------------------------------------
(* Drawing *)

\* Defect: a stop that succeeded is not noticed.
Synced_StartsOnly(u, up, valid) ==
  IF (u = "STARTING" /\ up) \/ (u = "ERROR" /\ valid)
  THEN IF up THEN "RUNNING" ELSE "STOPPED"
  ELSE u

\* A state of transition or error ends when the status matches what is expected.
Synced(u, up, valid) ==
  IF (u = "STARTING" /\ up) \/ (u = "STOPPING" /\ ~up) \/ (u = "ERROR" /\ valid)
  THEN IF up THEN "RUNNING" ELSE "STOPPED"
  ELSE u

\* The page is drawn, ui being the states the handler has come to.
services_render(ui) ==
  /\ cached_running' = running'
  /\ ui_states' = [i \in Service |-> Synced(ui[i], running'[i], status_valid'[i])]
  /\ panel' = IF dialog'
              THEN [index |-> selected_index', start |-> ~running'[selected_index'], yes |-> dialog_yes']
              ELSE NoDialog

----------------------------------------------------------------------------
(* The list *)

\* Defect: the last line is taken to be one lower than it is.
Scrolled_OffByOne(sel, off) ==
  IF sel < off THEN sel
  ELSE IF sel > off + VISIBLE_LINES THEN sel - VISIBLE_LINES + 1
  ELSE off

\* ensure_visible; its clamps are idle, see SelectionVisible.
Scrolled(sel, off) ==
  LET near == IF sel < off THEN sel
              ELSE IF sel >= off + VISIBLE_LINES THEN sel - VISIBLE_LINES + 1
              ELSE off
      last == IF service_count > VISIBLE_LINES THEN service_count - VISIBLE_LINES ELSE 0
  IN IF near > last THEN last ELSE near

Moved(d) == (selected_index + d + service_count) % service_count

----------------------------------------------------------------------------
(* Keys: page_controller has this page entered and no animation under way *)

HasKeys == visible /\ page_mode = "ENTER"

MovesSelection(d) ==
  /\ HasKeys /\ ~dialog
  /\ selected_index' = Moved(d)
  /\ scroll_offset' = Scrolled(selected_index', scroll_offset)
  /\ UNCHANGED <<visible, page_mode, dialogVars, statusVars, controls>>
  /\ services_render(ui_states)

OpensDialog ==
  /\ HasKeys /\ ~dialog
  /\ dialog' = TRUE /\ dialog_yes' = FALSE
  /\ UNCHANGED <<visible, page_mode, listVars, statusVars, controls>>
  /\ services_render(ui_states)

TogglesChoice ==
  /\ HasKeys /\ dialog
  /\ dialog_yes' = ~dialog_yes
  /\ UNCHANGED <<visible, page_mode, listVars, dialog, statusVars, controls>>
  /\ services_render(ui_states)

Declines ==
  /\ HasKeys /\ dialog /\ ~dialog_yes
  /\ dialog' = FALSE
  /\ UNCHANGED <<visible, page_mode, listVars, dialog_yes, statusVars, controls>>
  /\ services_render(ui_states)

\* Defect: the choice between start and stop is made when the user confirms.
WantsStart_Now(i) == ~running[i]

WantsStart(i) == ~cached_running[i]

\* sys_status_control_service: sent, or answered with a failure at once.
\* (Other requests that a failed lookup aborts with it have ended just before.)
Control(i, start, ui) ==
  \/ /\ controls[i][start] < MAX_CONTROLS
     /\ controls' = [controls EXCEPT ![i][start] = @ + 1]
     /\ services_render(ui)
  \/ /\ UNCHANGED controls
     /\ services_render([ui EXCEPT ![i] = "ERROR"])

\* Yes: on_key leaves a request, and ui_controller_handle_button takes it.
Confirms ==
  LET i     == selected_index
      start == WantsStart(i)
  IN /\ HasKeys /\ dialog /\ dialog_yes
     /\ dialog' = FALSE
     /\ UNCHANGED <<visible, page_mode, listVars, dialog_yes, statusVars>>
     /\ Control(i, start, [ui_states EXCEPT ![i] = IF start THEN "STARTING" ELSE "STOPPING"])

services_on_key ==
  \/ \E d \in {-1, 1} : MovesSelection(d)
  \/ OpensDialog
  \/ TogglesChoice
  \/ Declines
  \/ Confirms

----------------------------------------------------------------------------
(* What the page controller does with the page *)

services_on_enter ==
  /\ visible /\ page_mode = "VIEW"
  /\ page_mode' = "ENTER"
  /\ selected_index' = 0 /\ scroll_offset' = 0
  /\ UNCHANGED <<visible, dialogVars, statusVars, controls>>
  /\ services_render(ui_states)

\* Defect: an open dialog stays open.
services_on_exit_KeepsDialog ==
  /\ HasKeys
  /\ page_mode' = "VIEW"
  /\ UNCHANGED <<visible, listVars, dialogVars, statusVars, controls>>
  /\ services_render(ui_states)

\* By a long K2, or because the enter mode timed out.
services_on_exit ==
  /\ HasKeys
  /\ page_mode' = "VIEW"
  /\ dialog' = FALSE
  /\ UNCHANGED <<visible, listVars, dialog_yes, statusVars, controls>>
  /\ services_render(ui_states)

\* The user comes to the page, or leaves it, or the screen is switched.
Shows ==
  /\ ~visible /\ visible' = TRUE
  /\ UNCHANGED <<page_mode, listVars, dialogVars, statusVars, controls>>
  /\ services_render(ui_states)

Hides ==
  /\ visible /\ page_mode = "VIEW"
  /\ visible' = FALSE /\ panel' = NoDialog
  /\ UNCHANGED <<page_mode, listVars, dialogVars, ui_states, cached_running, statusVars, controls>>

\* The UI timer draws the page again.
Redraws ==
  /\ visible
  /\ UNCHANGED <<visible, page_mode, listVars, dialogVars, statusVars, controls>>
  /\ services_render(ui_states)

----------------------------------------------------------------------------
(* What ServiceStatus brings, between two renders *)

\* A query is answered, or fails.
QueryEnds(i) ==
  /\ \/ \E up \in BOOLEAN : running' = [running EXCEPT ![i] = up]
        /\ status_valid' = [status_valid EXCEPT ![i] = TRUE]
     \/ status_valid' = [status_valid EXCEPT ![i] = FALSE] /\ UNCHANGED running
  /\ UNCHANGED <<visible, page_mode, listVars, dialogVars, drawnVars, controls>>

\* service_control_cb, then page_services_notify_control_result.
ControlEnds(i, start) ==
  /\ controls[i][start] > 0
  /\ controls' = [controls EXCEPT ![i][start] = @ - 1]
  /\ \/ running' = [running EXCEPT ![i] = start] /\ UNCHANGED ui_states
     \/ ui_states' = [ui_states EXCEPT ![i] = "ERROR"] /\ UNCHANGED running
  /\ UNCHANGED <<visible, page_mode, listVars, dialogVars, cached_running, panel, status_valid>>

----------------------------------------------------------------------------
\* services_init; the daemon starts on another page.
Init ==
  /\ visible = FALSE /\ page_mode = "VIEW"
  /\ selected_index = 0 /\ scroll_offset = 0
  /\ ui_states = [i \in Service |-> "STOPPED"]
  /\ cached_running = [i \in Service |-> FALSE]
  /\ dialog = FALSE /\ dialog_yes = FALSE
  /\ panel = NoDialog
  /\ running = [i \in Service |-> FALSE] /\ status_valid = [i \in Service |-> FALSE]
  /\ controls = [i \in Service |-> [start \in BOOLEAN |-> 0]]

Next ==
  \/ services_on_key
  \/ services_on_enter
  \/ services_on_exit
  \/ Shows
  \/ Hides
  \/ Redraws
  \/ \E i \in Service : QueryEnds(i)
  \/ \E i \in Service, start \in BOOLEAN : ControlEnds(i, start)

PageSafety == Init /\ [][Next]_vars

\* While the screen is on, the UI timer draws the page again and again.
PageSpec == PageSafety /\ WF_vars(Redraws)

----------------------------------------------------------------------------
(* Properties *)

\* Types of all variables.
PageTypeOK ==
  /\ visible \in BOOLEAN /\ page_mode \in {"VIEW", "ENTER"}
  /\ selected_index \in Service /\ scroll_offset \in Service
  /\ ui_states \in [Service -> UiState]
  /\ cached_running \in [Service -> BOOLEAN]
  /\ dialog \in BOOLEAN /\ dialog_yes \in BOOLEAN
  /\ panel \in Dialog \cup {NoDialog}
  /\ running \in [Service -> BOOLEAN] /\ status_valid \in [Service -> BOOLEAN]
  /\ controls \in [Service -> [BOOLEAN -> 0 .. MAX_CONTROLS]]

\* The selected line is on the screen and the list fills it, after any number of
\* moves and wraps, and after entering the page again.
SelectionVisible ==
  /\ selected_index \in scroll_offset .. scroll_offset + VISIBLE_LINES - 1
  /\ scroll_offset > 0 => scroll_offset + VISIBLE_LINES <= service_count

\* A dialog never outlives the mode it was opened in: otherwise the next key after
\* entering again would confirm it, for whatever service is selected then.
DialogInEnterMode == dialog => HasKeys

\* The user gets what the panel offered: a control is only sent when the panel
\* shows the dialog for that service and that action, with Yes marked, whatever
\* became of the service since it was drawn.
ConfirmedIsShown ==
  [][\A i \in Service, start \in BOOLEAN :
       controls'[i][start] > controls[i][start]
         => panel = [index |-> i, start |-> start, yes |-> TRUE]]_vars

\* docs/adr0006/architecture.md: "UI state (STARTING/STOPPING blink) auto-clears
\* when actual state matches expectation", and an error when the status is known.
TransitionsEnd ==
  \A i \in Service :
    /\ <>[](visible /\ running[i])  => <>[](ui_states[i] # "STARTING")
    /\ <>[](visible /\ ~running[i]) => <>[](ui_states[i] # "STOPPING")
    /\ <>[](visible /\ status_valid[i]) => []<>(ui_states[i] # "ERROR")
=============================================================================
