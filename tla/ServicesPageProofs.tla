------------------------ MODULE ServicesPageProofs ------------------------
(***************************************************************************)
(* Proofs about ServicesPage, for every number of services and of lines.    *)
(***************************************************************************)
EXTENDS ServicesPage, TLAPS

\* Entered pages are drawn, and while a dialog is open the panel shows it as the
\* next confirmation will take it: this is what a render after every key gives.
PanelIsCurrent ==
  /\ page_mode = "ENTER" => visible
  /\ dialog => panel = [index |-> selected_index, start |-> ~cached_running[selected_index],
                        yes |-> dialog_yes]

PageInv == PageTypeOK /\ SelectionVisible /\ DialogInEnterMode /\ PanelIsCurrent

USE PageAssumption DEF PageAssumption

\* The list is a ring.
LEMMA MovedIsService ==
  ASSUME selected_index \in Service
  PROVE  Moved(-1) \in Service /\ Moved(1) \in Service
BY DEF Moved, Service

\* ensure_visible does what its name says, wherever the list was scrolled to.
LEMMA ScrolledShows ==
  ASSUME NEW sel \in Service, NEW off \in Service, off > 0 => off + VISIBLE_LINES <= service_count
  PROVE  /\ Scrolled(sel, off) \in Service
         /\ sel \in Scrolled(sel, off) .. Scrolled(sel, off) + VISIBLE_LINES - 1
         /\ Scrolled(sel, off) > 0 => Scrolled(sel, off) + VISIBLE_LINES <= service_count
BY DEF Scrolled, Service

\* What a render leaves, whichever handler it ends.
LEMMA RenderDraws ==
  ASSUME NEW ui \in [Service -> UiState],
         running' \in [Service -> BOOLEAN], status_valid' \in [Service -> BOOLEAN],
         selected_index' \in Service, dialog' \in BOOLEAN, dialog_yes' \in BOOLEAN,
         services_render(ui)
  PROVE  /\ ui_states' \in [Service -> UiState]
         /\ cached_running' \in [Service -> BOOLEAN]
         /\ panel' \in Dialog \cup {NoDialog}
         /\ dialog' => panel' = [index |-> selected_index',
                                 start |-> ~cached_running'[selected_index'], yes |-> dialog_yes']
<1>1. \A i \in Service : Synced(ui[i], running'[i], status_valid'[i]) \in UiState
  BY DEF Synced, UiState
<1>2. ui_states' \in [Service -> UiState]
  BY <1>1 DEF services_render
<1>3. cached_running' = running'
  BY DEF services_render
<1>4. (~running'[selected_index']) \in BOOLEAN
  OBVIOUS
<1>5. QED
  BY <1>2, <1>3, <1>4 DEF services_render, Dialog

----------------------------------------------------------------------------
(* One lemma for the handlers that end with a render *)

\* A handler that renders keeps the invariant if it keeps the types, the window
\* and the order of dialog, mode and page.
LEMMA RenderingStep ==
  ASSUME PageInv,
         NEW ui \in [Service -> UiState], services_render(ui),
         visible' = TRUE, page_mode' \in {"VIEW", "ENTER"},
         selected_index' \in Service, scroll_offset' \in Service, SelectionVisible',
         dialog' \in BOOLEAN, dialog_yes' \in BOOLEAN, dialog' => page_mode' = "ENTER",
         UNCHANGED statusVars, controls' \in [Service -> [BOOLEAN -> 0 .. MAX_CONTROLS]]
  PROVE  PageInv'
<1>1. running' \in [Service -> BOOLEAN] /\ status_valid' \in [Service -> BOOLEAN]
  BY DEF PageInv, PageTypeOK, statusVars
<1>2. /\ ui_states' \in [Service -> UiState]
      /\ cached_running' \in [Service -> BOOLEAN]
      /\ panel' \in Dialog \cup {NoDialog}
      /\ dialog' => panel' = [index |-> selected_index',
                              start |-> ~cached_running'[selected_index'], yes |-> dialog_yes']
  BY <1>1, RenderDraws
<1>3. PageTypeOK'
  BY <1>1, <1>2 DEF PageTypeOK
<1>4. DialogInEnterMode' /\ PanelIsCurrent'
  BY <1>2 DEF DialogInEnterMode, HasKeys, PanelIsCurrent
<1>5. QED
  BY <1>3, <1>4 DEF PageInv

LEMMA KeysKeepInv == ASSUME PageInv, services_on_key PROVE PageInv'
<1> USE DEF PageInv, PageTypeOK, listVars, dialogVars
<1>1. ASSUME NEW d \in {-1, 1}, MovesSelection(d) PROVE PageInv'
  <2>1. selected_index' \in Service
    BY <1>1, MovedIsService DEF MovesSelection
  <2>2. scroll_offset' \in Service /\ SelectionVisible'
    BY <1>1, <2>1, ScrolledShows DEF MovesSelection, SelectionVisible
  <2>3. QED
    BY <1>1, <2>1, <2>2, RenderingStep DEF MovesSelection, HasKeys
<1>2. CASE OpensDialog
  <2>1. SelectionVisible'
    BY <1>2 DEF OpensDialog, SelectionVisible
  <2>2. QED
    BY <1>2, <2>1, RenderingStep DEF OpensDialog, HasKeys
<1>3. CASE TogglesChoice
  <2>1. SelectionVisible'
    BY <1>3 DEF TogglesChoice, SelectionVisible
  <2>2. dialog_yes' \in BOOLEAN
    BY <1>3 DEF TogglesChoice
  <2>3. QED
    BY <1>3, <2>1, <2>2, RenderingStep DEF TogglesChoice, HasKeys
<1>4. CASE Declines
  <2>1. SelectionVisible'
    BY <1>4 DEF Declines, SelectionVisible
  <2>2. QED
    BY <1>4, <2>1, RenderingStep DEF Declines, HasKeys
<1>5. CASE Confirms
  <2> DEFINE i == selected_index
             start == WantsStart(i)
             asked == [ui_states EXCEPT ![i] = IF start THEN "STARTING" ELSE "STOPPING"]
  <2>1. i \in Service /\ start \in BOOLEAN
    BY DEF WantsStart
  <2>2. asked \in [Service -> UiState] /\ [asked EXCEPT ![i] = "ERROR"] \in [Service -> UiState]
    BY DEF UiState
  <2>3. Control(i, start, asked)
    BY <1>5 DEF Confirms
  <2>4. PICK ui \in [Service -> UiState] : services_render(ui)
    BY <2>2, <2>3 DEF Control
  <2>5. controls' \in [Service -> [BOOLEAN -> 0 .. MAX_CONTROLS]]
    BY <2>1, <2>3 DEF Control
  <2>6. SelectionVisible'
    BY <1>5 DEF Confirms, SelectionVisible
  <2>7. QED
    BY <1>5, <2>4, <2>5, <2>6, RenderingStep DEF Confirms, HasKeys
<1>6. QED
  BY <1>1, <1>2, <1>3, <1>4, <1>5 DEF services_on_key

LEMMA PageKeepsInv ==
  ASSUME PageInv, services_on_enter \/ services_on_exit \/ Shows \/ Hides \/ Redraws
  PROVE  PageInv'
<1> USE DEF PageInv, PageTypeOK, listVars, dialogVars
<1>1. CASE services_on_enter
  <2>1. selected_index' \in Service /\ scroll_offset' \in Service /\ SelectionVisible'
    BY <1>1 DEF services_on_enter, SelectionVisible, Service
  <2>2. QED
    BY <1>1, <2>1, RenderingStep DEF services_on_enter
<1>2. CASE services_on_exit
  <2>1. SelectionVisible'
    BY <1>2 DEF services_on_exit, SelectionVisible
  <2>2. QED
    BY <1>2, <2>1, RenderingStep DEF services_on_exit, HasKeys
<1>3. CASE Shows
  <2>1. SelectionVisible'
    BY <1>3 DEF Shows, SelectionVisible
  <2>2. ~dialog
    BY <1>3 DEF Shows, DialogInEnterMode, HasKeys
  <2>3. QED
    BY <1>3, <2>1, <2>2, RenderingStep DEF Shows
<1>4. CASE Hides
  <2>1. ~dialog /\ page_mode = "VIEW"
    BY <1>4 DEF Hides, DialogInEnterMode, HasKeys
  <2>2. QED
    BY <1>4, <2>1 DEF Hides, SelectionVisible, DialogInEnterMode, HasKeys, PanelIsCurrent, statusVars
<1>5. CASE Redraws
  <2>1. SelectionVisible'
    BY <1>5 DEF Redraws, SelectionVisible
  <2>2. QED
    BY <1>5, <2>1, RenderingStep DEF Redraws, DialogInEnterMode, HasKeys
<1>6. QED
  BY <1>1, <1>2, <1>3, <1>4, <1>5

LEMMA StatusKeepsInv ==
  ASSUME PageInv, NEW i \in Service,
         QueryEnds(i) \/ \E start \in BOOLEAN : ControlEnds(i, start)
  PROVE  PageInv'
<1> USE DEF PageInv, PageTypeOK, listVars, dialogVars, SelectionVisible, DialogInEnterMode, HasKeys,
            PanelIsCurrent
<1>1. CASE QueryEnds(i)
  BY <1>1 DEF QueryEnds, drawnVars
<1>2. ASSUME NEW start \in BOOLEAN, ControlEnds(i, start) PROVE PageInv'
  <2>1. controls' \in [Service -> [BOOLEAN -> 0 .. MAX_CONTROLS]]
    <3>1. controls[i][start] - 1 \in 0 .. MAX_CONTROLS
      BY <1>2 DEF ControlEnds
    <3>2. QED
      BY <1>2, <3>1 DEF ControlEnds
  <2>2. running' \in [Service -> BOOLEAN] /\ ui_states' \in [Service -> UiState]
    BY <1>2 DEF ControlEnds, UiState
  <2>3. QED
    BY <1>2, <2>1, <2>2 DEF ControlEnds
<1>3. QED
  BY <1>1, <1>2

LEMMA PageInvInductive == PageSafety => []PageInv
<1>1. Init => PageInv
  <2> SUFFICES ASSUME Init PROVE PageInv
    OBVIOUS
  <2>1. 0 \in Service /\ 0 \in 0 .. MAX_CONTROLS
    BY DEF Service
  <2>2. PageTypeOK
    BY <2>1 DEF Init, PageTypeOK, UiState
  <2>3. QED
    BY <2>2 DEF Init, PageInv, SelectionVisible, DialogInEnterMode, PanelIsCurrent
<1>2. PageInv /\ [Next]_vars => PageInv'
  <2> SUFFICES ASSUME PageInv, [Next]_vars PROVE PageInv'
    OBVIOUS
  <2>1. CASE UNCHANGED vars
    BY <2>1 DEF vars, listVars, dialogVars, drawnVars, statusVars, PageInv, PageTypeOK,
                SelectionVisible, DialogInEnterMode, HasKeys, PanelIsCurrent
  <2>2. CASE Next
    BY <2>2, KeysKeepInv, PageKeepsInv, StatusKeepsInv DEF Next
  <2>3. QED
    BY <2>1, <2>2
<1>3. QED
  BY <1>1, <1>2, PTL DEF PageSafety

----------------------------------------------------------------------------
(* The theorems *)

\* page_services.c keeps its state within its types, for any list.
THEOREM PageTypeCorrect == PageSafety => []PageTypeOK
<1>1. PageInv => PageTypeOK
  BY DEF PageInv
<1>2. QED
  BY <1>1, PageInvInductive, PTL

\* ensure_visible and services_on_enter keep the selected line on the screen.
THEOREM SelectionStaysVisible == PageSafety => []SelectionVisible
<1>1. PageInv => SelectionVisible
  BY DEF PageInv
<1>2. QED
  BY <1>1, PageInvInductive, PTL

\* services_on_exit leaves no dialog behind.
THEOREM DialogEndsWithMode == PageSafety => []DialogInEnterMode
<1>1. PageInv => DialogInEnterMode
  BY DEF PageInv
<1>2. QED
  BY <1>1, PageInvInductive, PTL

\* services_on_key asks for what the last services_render offered.
THEOREM ShownIsDone == PageSafety => ConfirmedIsShown
<1> DEFINE Shown ==
      \A i \in Service, start \in BOOLEAN :
        controls'[i][start] > controls[i][start]
          => panel = [index |-> i, start |-> start, yes |-> TRUE]
<1>1. PageInv /\ [Next]_vars => [Shown]_vars
  <2> SUFFICES ASSUME PageInv, Next, NEW i \in Service, NEW start \in BOOLEAN,
                      controls'[i][start] > controls[i][start]
               PROVE  panel = [index |-> i, start |-> start, yes |-> TRUE]
    OBVIOUS
  <2> USE DEF PageInv, PageTypeOK
  <2>1. controls' # controls
    OBVIOUS
  <2>2. ASSUME NEW j \in Service, NEW st \in BOOLEAN, ControlEnds(j, st) PROVE FALSE
    BY <2>2 DEF ControlEnds
  <2>3. Confirms
    BY <2>1, <2>2 DEF Next, services_on_key, MovesSelection, OpensDialog, TogglesChoice, Declines,
                      services_on_enter, services_on_exit, Shows, Hides, Redraws, QueryEnds
  <2>4. i = selected_index /\ start = WantsStart(selected_index)
    BY <2>3 DEF Confirms, Control
  <2>5. dialog /\ dialog_yes = TRUE
    BY <2>3 DEF Confirms
  <2>6. QED
    BY <2>4, <2>5 DEF PanelIsCurrent, WantsStart
<1>2. QED
  BY <1>1, PageInvInductive, PTL DEF PageSafety, ConfirmedIsShown
=============================================================================
