--------------------------- MODULE OldLoopProofs ---------------------------
(***************************************************************************)
(* Proofs about OldLoop, for all intervals, numbers of pages and services   *)
(* and lengths of animations, and however long handlers and tasks take:     *)
(* the tasks leave nothing due behind, a menu is never open where it cannot *)
(* be seen, and the panel shows what the loop acts on.                      *)
(***************************************************************************)
EXTENDS OldLoop, FiniteSetTheorems, TLAPS

USE OldLoopAssumption DEF OldLoopAssumption

Left == [frame : Int, status : Nat, service : Nat, menu : Int]
Anim == [type : {"none", "enter", "reject"}, frame : Nat]

\* A sequence, whatever its elements.
IsListing(list) == Len(list) \in Nat /\ DOMAIN list = 1 .. Len(list)

OldLoopTypeOK ==
  /\ pc \in {"wait", "handle", "tasks", "down"}
  /\ event \in Event \cup {"none"}
  /\ running \in BOOLEAN /\ display_on \in BOOLEAN /\ menu_active \in BOOLEAN /\ dirty \in BOOLEAN
  /\ left \in Left /\ spent \in Nat
  /\ current_page \in 0 .. PAGE_COUNT - 1 /\ menu_selected \in Nat
  /\ title_anim \in Anim
  /\ IsListing(services)

\* Whoever waits waits for deadlines ahead of the time the tasks worked with; each may
\* have passed in the time they took.
DeadlinesAhead ==
  pc = "wait" =>
    /\ left.frame + spent > 0 /\ left.status + spent > 0
    /\ current_page = PAGE_SERVICES => left.service + spent > 0
    /\ menu_active => left.menu + spent > 0

\* Not only the waiting loop: wherever nothing asks for a redraw the panel is current, and
\* the selection of an open menu is one of its lines, so that bringing it back into the
\* list, as every menu command does, changes nothing.
PanelFollows ==
  display_on /\ ~dirty =>
    /\ panel = View(current_page, menu_active, menu_selected, services)
    /\ menu_active /\ services # <<>> => menu_selected < Len(services)

OldLoopInv == OldLoopTypeOK /\ DeadlinesAhead /\ MenuIsVisible /\ PanelFollows

----------------------------------------------------------------------------
(* The operators of the model *)

\* What sys_status_update_services finds is a list.
LEMMA ListsAreListings ==
  ASSUME NEW list \in Lists
  PROVE  IsListing(list)
<1>1. PICK S \in SUBSET (1 .. SERVICES), r \in [1 .. SERVICES -> BOOLEAN] : list = Listing(S, r)
  BY DEF Lists
<1>2. IsFiniteSet(1 .. SERVICES)
  BY FS_Interval
<1>3. IsFiniteSet(S)
  BY <1>2, FS_Subset
<1>4. Cardinality(S) \in Nat
  BY <1>3, FS_CardinalityType
<1>5. DOMAIN list = 1 .. Cardinality(S)
  BY <1>1 DEF Listing
<1> DEFINE n == Cardinality(S)
<1>6. \A f : DOMAIN f = 1 .. n => Len(f) = n
  <2> HIDE DEF n
  <2>1. n \in Nat
    BY <1>4 DEF n
  <2>2. QED
    BY <2>1
<1>7. QED
  BY <1>4, <1>5, <1>6 DEF IsListing

\* Flipping the state of one service leaves a list.
LEMMA FlippingKeepsListing ==
  ASSUME NEW list, IsListing(list), NEW i, NEW e
  PROVE  IsListing([list EXCEPT ![i] = e])
BY DEF IsListing

\* The selection comes back into the list, and stays where it is if it is in it.
LEMMA SelectedInList ==
  ASSUME NEW n \in Nat, NEW list, IsListing(list)
  PROVE  /\ Selected(n, list) \in Nat
         /\ list # <<>> => Selected(n, list) < Len(list)
         /\ (list # <<>> => n < Len(list)) => Selected(n, list) = n
BY DEF Selected, IsListing

\* The larger of two numbers.
LEMMA MaxOfTwo ==
  \A a, b \in Int : Max({a, b}) = IF a >= b THEN a ELSE b
<1> SUFFICES ASSUME NEW a \in Int, NEW b \in Int
             PROVE  Max({a, b}) = IF a >= b THEN a ELSE b
  OBVIOUS
<1>1. \E x \in {a, b} : \A y \in {a, b} : x >= y
  OBVIOUS
<1>2. Max({a, b}) \in {a, b} /\ \A y \in {a, b} : Max({a, b}) >= y
  BY <1>1 DEF Max
<1> HIDE DEF Max
<1>3. QED
  BY <1>2

\* Time leaves deadlines deadlines, and one that was ahead passes by no more than it.
LEMMA PassKeepsType ==
  ASSUME NEW l \in Left, NEW d \in Nat
  PROVE  /\ Pass(l, d) \in Left
         /\ Pass(l, d).frame + d = l.frame
         /\ Pass(l, d).status + d >= l.status
         /\ Pass(l, d).service + d >= l.service
         /\ Pass(l, d).menu + d >= l.menu
<1>1. \A a, b \in Int : Max({a, b}) = IF a >= b THEN a ELSE b
  BY MaxOfTwo
<1>2. l.frame \in Int /\ l.status \in Nat /\ l.service \in Nat /\ l.menu \in Int
  BY DEF Left
<1>3. Max({0, l.status - d}) \in Nat /\ Max({0, l.status - d}) + d >= l.status
  BY <1>1, <1>2
<1>4. Max({0, l.service - d}) \in Nat /\ Max({0, l.service - d}) + d >= l.service
  BY <1>1, <1>2
<1>5. Max({-1, l.menu - d}) \in Int /\ Max({-1, l.menu - d}) + d >= l.menu
  BY <1>1, <1>2
<1>6. QED
  BY <1>2, <1>3, <1>4, <1>5 DEF Pass, Left

\* So does an input to the menu.
LEMMA TouchKeepsType ==
  ASSUME NEW l \in Left
  PROVE  [l EXCEPT !.menu = MENU_TIMEOUT] \in Left
BY DEF Left

\* The next frame lies ahead, however late the last one is.
LEMMA NextFrameAhead ==
  ASSUME NEW frame \in Int, NEW interval \in Nat \ {0}
  PROVE  NextFrame(frame, interval) \in 1 .. interval
<1> DEFINE r == (-frame) % interval
           q == (-frame) \div interval
           n == interval - r
<1>1. r \in 0 .. interval - 1 /\ q \in Int /\ -frame = interval * q + r
  OBVIOUS
<1>2. n \in 1 .. interval /\ n - frame = interval * (q + 1)
  BY <1>1
<1>3. (interval * (q + 1)) % interval = 0
  BY <1>1
<1>4. \E m \in 1 .. interval : (m - frame) % interval = 0
  <2> HIDE DEF n
  <2>1. (n - frame) % interval = 0
    BY <1>2, <1>3
  <2>2. QED
    BY <1>2, <2>1
<1>5. QED
  BY <1>4 DEF NextFrame

\* The nearest of deadlines that were ahead of the tasks was ahead of them.
LEMMA TimeoutAhead ==
  ASSUME left \in Left, spent \in Nat, left.frame + spent > 0, left.status + spent > 0,
         current_page = PAGE_SERVICES => left.service + spent > 0,
         menu_active => left.menu + spent > 0
  PROVE  timeout + spent > 0
<1> DEFINE S == {left.frame, left.status}
                  \cup (IF current_page = PAGE_SERVICES THEN {left.service} ELSE {})
                  \cup (IF menu_active THEN {left.menu} ELSE {})
<1>1. \A x \in S : x \in Int /\ x + spent > 0
  BY DEF Left
<1>2. \E x \in S : \A y \in S : x =< y
  <2>1. left.frame \in Int /\ left.status \in Int /\ left.service \in Int /\ left.menu \in Int
    BY DEF Left
  <2>2. \A a, b, c, d \in Int : \E x \in {a, b, c, d} : \A y \in {a, b, c, d} : x =< y
    <3>1. \A a, b \in Int : \E x \in {a, b} : x =< a /\ x =< b
      OBVIOUS
    <3>2. SUFFICES ASSUME NEW a \in Int, NEW b \in Int, NEW c \in Int, NEW d \in Int
                   PROVE  \E x \in {a, b, c, d} : \A y \in {a, b, c, d} : x =< y
      OBVIOUS
    <3>3. PICK x \in {a, b} : x =< a /\ x =< b
      BY <3>1
    <3>4. PICK z \in {c, d} : z =< c /\ z =< d
      BY <3>1
    <3>5. CASE x =< z
      BY <3>3, <3>4, <3>5
    <3>6. CASE z =< x
      BY <3>3, <3>4, <3>6
    <3>7. QED
      BY <3>3, <3>4, <3>5, <3>6
  <2>3. \E a, b, c, d \in Int : S = {a, b, c, d}
    <3> DEFINE c == IF current_page = PAGE_SERVICES THEN left.service ELSE left.frame
               d == IF menu_active THEN left.menu ELSE left.frame
    <3>1. c \in Int /\ d \in Int
      BY <2>1
    <3>2. S = {left.frame, left.status, c, d}
      BY Zenon
    <3>3. QED
      BY <2>1, <3>1, <3>2
  <2> HIDE DEF S
  <2>4. PICK a, b, c, d \in Int : S = {a, b, c, d}
    BY <2>3
  <2>5. \E x \in {a, b, c, d} : \A y \in {a, b, c, d} : x =< y
    BY <2>2
  <2>6. QED
    BY <2>4, <2>5, Zenon
<1> HIDE DEF S
<1>3. Min(S) \in S
  BY <1>2 DEF Min
<1>4. timeout = Min(S)
  BY DEF timeout, S
<1>5. QED
  BY <1>1, <1>3, <1>4

----------------------------------------------------------------------------
(* The steps *)

LEMMA InitInv == Init => OldLoopInv
<1> SUFFICES ASSUME Init PROVE OldLoopInv
  OBVIOUS
<1>1. 1 % PAGE_COUNT \in 0 .. PAGE_COUNT - 1
  OBVIOUS
<1>2. IsListing(services)
  BY ListsAreListings DEF Init
<1>3. OldLoopTypeOK
  <2>1. left \in Left /\ title_anim \in Anim
    BY DEF Init, Left, Anim, NoAnim
  <2>2. current_page \in 0 .. PAGE_COUNT - 1
    BY <1>1 DEF Init
  <2>3. QED
    BY <1>2, <2>1, <2>2 DEF Init, OldLoopTypeOK
<1>4. DeadlinesAhead /\ MenuIsVisible
  BY DEF Init, DeadlinesAhead, MenuIsVisible, is_animating, NoAnim
<1>5. PanelFollows
  BY DEF Init, PanelFollows
<1>6. QED
  BY <1>3, <1>4, <1>5 DEF OldLoopInv

LEMMA WaitStep ==
  ASSUME OldLoopInv, gpio_button_wait
  PROVE  OldLoopInv'
<1>1. PICK d \in 0 .. Max({0, timeout}) :
        left' = Pass(left, d) /\ event' \in Event \cup {"none"}
  BY DEF gpio_button_wait
<1>2. left' \in Left
  <2>1. left \in Left /\ d \in Nat
    BY DEF OldLoopInv, OldLoopTypeOK
  <2>2. QED
    BY <1>1, <2>1, PassKeepsType
<1>3. /\ pc' = "handle" /\ spent' = 0 /\ running' = running /\ current_page' = current_page
      /\ menu_active' = menu_active /\ menu_selected' = menu_selected /\ services' = services
      /\ display_on' = display_on /\ title_anim' = title_anim /\ dirty' = dirty /\ panel' = panel
  BY DEF gpio_button_wait, viewVars
<1>4. OldLoopTypeOK'
  BY <1>1, <1>2, <1>3 DEF OldLoopInv, OldLoopTypeOK, IsListing
<1>5. DeadlinesAhead'
  BY <1>3 DEF DeadlinesAhead
<1>6. MenuIsVisible' /\ PanelFollows'
  BY <1>3 DEF OldLoopInv, MenuIsVisible, is_animating, PanelFollows, View
<1>7. QED
  BY <1>4, <1>5, <1>6 DEF OldLoopInv

\* What every handler has in common: afterwards the loop turns to its tasks, so that only
\* types, the place of the menu and the panel have to be shown.
LEMMA HandledStep ==
  ASSUME OldLoopInv, Handled,
         left' \in Left, current_page' \in 0 .. PAGE_COUNT - 1, menu_selected' \in Nat,
         display_on' \in BOOLEAN, menu_active' \in BOOLEAN, dirty' \in BOOLEAN,
         title_anim' \in Anim, IsListing(services'),
         MenuIsVisible', PanelFollows'
  PROVE  OldLoopInv'
<1>1. pc' = "tasks" /\ event' = "none" /\ running' = running /\ spent' = spent
  BY DEF Handled
<1>2. OldLoopTypeOK'
  BY <1>1 DEF OldLoopInv, OldLoopTypeOK, IsListing
<1>3. DeadlinesAhead'
  BY <1>1 DEF DeadlinesAhead
<1>4. QED
  BY <1>2, <1>3 DEF OldLoopInv

\* The types as facts about the unprimed variables.
LEMMA Types ==
  ASSUME OldLoopInv
  PROVE  /\ left \in Left /\ current_page \in 0 .. PAGE_COUNT - 1 /\ menu_selected \in Nat
         /\ display_on \in BOOLEAN /\ menu_active \in BOOLEAN /\ dirty \in BOOLEAN
         /\ title_anim \in Anim /\ IsListing(services) /\ MenuIsVisible /\ PanelFollows
BY DEF OldLoopInv, OldLoopTypeOK

\* Handlers that leave the view alone.
LEMMA NoButtonStep ==
  ASSUME OldLoopInv, NoButton
  PROVE  OldLoopInv'
<1>1. /\ Handled /\ left' = left /\ current_page' = current_page
      /\ menu_active' = menu_active /\ menu_selected' = menu_selected /\ services' = services
      /\ display_on' = display_on /\ title_anim' = title_anim /\ dirty' = dirty /\ panel' = panel
  BY DEF NoButton, Quick, viewVars
<1>2. MenuIsVisible' /\ PanelFollows'
  BY <1>1, Types DEF MenuIsVisible, is_animating, PanelFollows, View
<1>3. QED
  BY <1>1, <1>2, Types, HandledStep

LEMMA WakeStep ==
  ASSUME OldLoopInv, Wake
  PROVE  OldLoopInv'
<1>1. /\ Handled /\ left' = left /\ current_page' = current_page
      /\ menu_active' = menu_active /\ menu_selected' = menu_selected /\ services' = services
      /\ display_on' = TRUE /\ title_anim' = title_anim /\ dirty' = TRUE
  BY DEF Wake, Quick, viewVars
<1>2. MenuIsVisible' /\ PanelFollows'
  BY <1>1, Types DEF MenuIsVisible, is_animating, PanelFollows
<1>3. QED
  BY <1>1, <1>2, Types, HandledStep

LEMMA PageIgnoresStep ==
  ASSUME OldLoopInv, PageIgnores
  PROVE  OldLoopInv'
<1>1. /\ Handled /\ left' = left /\ current_page' = current_page
      /\ menu_active' = menu_active /\ menu_selected' = menu_selected /\ services' = services
      /\ display_on' = display_on /\ title_anim' = title_anim /\ dirty' = dirty /\ panel' = panel
  BY DEF PageIgnores, Pressed, Quick, viewVars
<1>2. MenuIsVisible' /\ PanelFollows'
  BY <1>1, Types DEF MenuIsVisible, is_animating, PanelFollows, View
<1>3. QED
  BY <1>1, <1>2, Types, HandledStep

LEMMA PowerOffStep ==
  ASSUME OldLoopInv, PowerOff
  PROVE  OldLoopInv'
<1>1. /\ Handled /\ ~menu_active /\ left' = left /\ current_page' = current_page
      /\ menu_active' = menu_active /\ menu_selected' = menu_selected /\ services' = services
      /\ display_on' = FALSE /\ title_anim' = NoAnim /\ dirty' = dirty
  BY DEF PowerOff, Pressed, Quick, viewVars
<1>2. MenuIsVisible' /\ PanelFollows'
  BY <1>1 DEF MenuIsVisible, is_animating, NoAnim, PanelFollows
<1>3. NoAnim \in Anim
  BY DEF NoAnim, Anim
<1>4. QED
  BY <1>1, <1>2, <1>3, Types, HandledStep

LEMMA RejectStep ==
  ASSUME OldLoopInv, Reject
  PROVE  OldLoopInv'
<1>1. /\ Handled /\ display_on /\ left' = left /\ current_page' = current_page
      /\ menu_active' = menu_active /\ menu_selected' = menu_selected /\ services' = services
      /\ display_on' = display_on /\ dirty' = TRUE
      /\ title_anim' = [type |-> "reject", frame |-> 0]
  BY DEF Reject, Pressed, Quick, viewVars, start_title_anim
<1>2. MenuIsVisible' /\ PanelFollows'
  BY <1>1, Types DEF MenuIsVisible, PanelFollows
<1>3. title_anim' \in Anim
  BY <1>1 DEF Anim
<1>4. QED
  BY <1>1, <1>2, <1>3, Types, HandledStep

LEMMA MenuMoveStep ==
  ASSUME OldLoopInv, NEW e \in Event, NEW step \in {-1, 1}, MenuMove(e, step)
  PROVE  OldLoopInv'
<1>1. /\ Handled /\ display_on /\ menu_active /\ services # <<>>
      /\ menu_selected' = (Current + step) % Len(services)
      /\ left' = [left EXCEPT !.menu = MENU_TIMEOUT] /\ dirty' = TRUE
      /\ current_page' = current_page /\ menu_active' = menu_active /\ services' = services
      /\ display_on' = display_on /\ title_anim' = title_anim
  BY DEF MenuMove, Pressed
<1>2. menu_selected' \in Nat
  <2>1. Current \in Nat /\ Current < Len(services)
    BY <1>1, Types, SelectedInList DEF Current
  <2>2. Len(services) \in Nat \ {0}
    BY <2>1, Types DEF IsListing
  <2>3. \A c \in Int, n \in Nat \ {0} : c % n \in Nat
    OBVIOUS
  <2>4. Current + step \in Int
    BY <2>1
  <2>5. QED
    BY <1>1, <2>2, <2>3, <2>4
<1>3. left' \in Left
  BY <1>1, Types, TouchKeepsType
<1>4. MenuIsVisible' /\ PanelFollows'
  BY <1>1, Types DEF MenuIsVisible, is_animating, PanelFollows
<1>5. QED
  BY <1>1, <1>2, <1>3, <1>4, Types, HandledStep

LEMMA MenuActStep ==
  ASSUME OldLoopInv, MenuAct
  PROVE  OldLoopInv'
<1>1. /\ Handled /\ display_on /\ menu_active /\ services # <<>>
      /\ menu_selected' = Current /\ dirty' = TRUE
      /\ services' \in {services, [services EXCEPT ![Current + 1].running = ~@]}
      /\ current_page' = current_page /\ menu_active' = menu_active
      /\ display_on' = display_on /\ title_anim' = title_anim
  BY DEF MenuAct, Pressed
<1>2. menu_selected' \in Nat
  BY <1>1, Types, SelectedInList DEF Current
<1>3. IsListing(services')
  <2>1. CASE services' = services
    BY <2>1, Types
  <2>2. CASE services' = [services EXCEPT ![Current + 1].running = ~@]
    BY <2>2, Types, FlippingKeepsListing
  <2>3. QED
    BY <1>1, <2>1, <2>2
<1>4. left' \in Left
  <2>1. PICK d \in 0 .. BLOCKING : left' = [Pass(left, d) EXCEPT !.menu = MENU_TIMEOUT]
    BY DEF MenuAct
  <2> DEFINE p == Pass(left, d)
  <2>2. p \in Left
    BY Types, PassKeepsType
  <2>3. left' = [p EXCEPT !.menu = MENU_TIMEOUT]
    BY <2>1
  <2> HIDE DEF p
  <2>4. QED
    BY <2>2, <2>3, TouchKeepsType
<1>5. MenuIsVisible' /\ PanelFollows'
  BY <1>1, Types DEF MenuIsVisible, is_animating, PanelFollows
<1>6. QED
  BY <1>1, <1>2, <1>3, <1>4, <1>5, Types, HandledStep

LEMMA MenuExitStep ==
  ASSUME OldLoopInv, MenuExit
  PROVE  OldLoopInv'
<1>1. /\ Handled /\ display_on /\ left' = left
      /\ menu_selected' = Current /\ menu_active' = FALSE /\ dirty' = TRUE
      /\ current_page' = current_page /\ services' = services
      /\ display_on' = display_on /\ title_anim' = title_anim
  BY DEF MenuExit, Pressed, Quick
<1>2. menu_selected' \in Nat
  BY <1>1, Types, SelectedInList DEF Current
<1>3. MenuIsVisible' /\ PanelFollows'
  BY <1>1, Types DEF MenuIsVisible, is_animating, PanelFollows
<1>4. QED
  BY <1>1, <1>2, <1>3, Types, HandledStep

\* Here nothing asks for a redraw, though the selection may have been brought back into the
\* list: what is drawn is a selection that was in it.
LEMMA MenuIgnoresStep ==
  ASSUME OldLoopInv, MenuIgnores
  PROVE  OldLoopInv'
<1>1. /\ Handled /\ display_on /\ menu_active /\ left' = left
      /\ menu_selected' = Current /\ dirty' = dirty /\ panel' = panel
      /\ current_page' = current_page /\ menu_active' = menu_active /\ services' = services
      /\ display_on' = display_on /\ title_anim' = title_anim
  BY DEF MenuIgnores, Quick
<1>2. menu_selected' \in Nat
  BY <1>1, Types, SelectedInList DEF Current
<1>3. MenuIsVisible'
  BY <1>1, Types DEF MenuIsVisible, is_animating
<1>4. ~dirty => menu_selected' = menu_selected
  BY <1>1, Types, SelectedInList DEF Current, PanelFollows
<1>5. PanelFollows'
  BY <1>1, <1>4, Types DEF PanelFollows
<1>6. QED
  BY <1>1, <1>2, <1>3, <1>5, Types, HandledStep

LEMMA TurnPageStep ==
  ASSUME OldLoopInv, NEW e \in Event, NEW step \in {-1, 1}, TurnPage(e, step)
  PROVE  OldLoopInv'
<1>1. /\ Handled /\ display_on /\ ~menu_active
      /\ current_page' = (current_page + step) % PAGE_COUNT
      /\ services' \in Lists \/ services' = services
      /\ panel' = View(current_page', FALSE, menu_selected, services')
      /\ menu_active' = menu_active /\ menu_selected' = menu_selected
      /\ display_on' = display_on /\ title_anim' = title_anim /\ dirty' = dirty
  BY DEF TurnPage, Pressed
<1>2. current_page' \in 0 .. PAGE_COUNT - 1
  BY <1>1, Types
<1>3. left' \in Left
  BY Types, PassKeepsType DEF TurnPage, Blocks
<1>4. IsListing(services')
  BY <1>1, Types, ListsAreListings
<1>5. menu_active' = FALSE
  BY <1>1, Types
<1>6. MenuIsVisible'
  BY <1>1, <1>5 DEF MenuIsVisible
<1>7. PanelFollows'
  BY <1>1, <1>5 DEF PanelFollows
<1>8. QED
  BY <1>1, <1>2, <1>3, <1>4, <1>6, <1>7, Types, HandledStep

LEMMA MenuEnterStep ==
  ASSUME OldLoopInv, MenuEnter
  PROVE  OldLoopInv'
<1>1. /\ Handled /\ display_on /\ current_page = PAGE_SERVICES
      /\ menu_active' = TRUE /\ menu_selected' = 0 /\ services' \in Lists /\ dirty' = TRUE
      /\ title_anim' = [type |-> "enter", frame |-> 0]
      /\ current_page' = current_page /\ display_on' = display_on
  BY DEF MenuEnter, Pressed, start_title_anim
<1>2. left' \in Left
  <2>1. PICK d \in 0 .. BLOCKING : left' = Pass([left EXCEPT !.menu = MENU_TIMEOUT], d)
    BY DEF MenuEnter, Blocks
  <2>2. [left EXCEPT !.menu = MENU_TIMEOUT] \in Left
    BY Types, TouchKeepsType
  <2>3. QED
    BY <2>1, <2>2, PassKeepsType
<1>3. IsListing(services') /\ title_anim' \in Anim
  BY <1>1, ListsAreListings DEF Anim
<1>4. MenuIsVisible' /\ PanelFollows'
  BY <1>1 DEF MenuIsVisible, PanelFollows
<1>5. QED
  BY <1>1, <1>2, <1>3, <1>4, Types, HandledStep

----------------------------------------------------------------------------
(* The timed tasks *)

\* The two kinds of frame the animation knows.
LEMMA AdvanceKeepsType ==
  ASSUME NEW a \in Anim
  PROVE  advance_title_anim(a) \in Anim
BY DEF advance_title_anim, Anim, NoAnim

\* Whatever was due, restarting leaves no deadline of the wait behind: the status and the
\* service list are due an interval from now, and a menu that was due is closed.
LEMMA RestartAhead ==
  ASSUME left \in Left, current_page' = current_page, menu_active \in BOOLEAN,
         menu_active' = (menu_active /\ ~MenuDue)
  PROVE  /\ Restart(left) \in Left
         /\ Restart(left).status > 0
         /\ current_page' = PAGE_SERVICES => Restart(left).service > 0
         /\ menu_active' => Restart(left).menu > 0
<1>1. /\ left.frame \in Int /\ left.status \in Nat /\ left.service \in Nat /\ left.menu \in Int
      /\ left = [frame |-> left.frame, status |-> left.status, service |-> left.service,
                 menu |-> left.menu]
  BY DEF Left
<1> DEFINE s == IF StatusDue THEN STATUS_UPDATE ELSE left.status
           v == IF ServicesDue THEN SERVICE_REFRESH_INTERVAL ELSE left.service
           m == IF menu_active' THEN left.menu ELSE 0
<1>2. Restart(left) = [frame |-> left.frame, status |-> s, service |-> v, menu |-> m]
  <2>1. Restart(left) = [left EXCEPT !.status = s, !.service = v, !.menu = m]
    BY DEF Restart
  <2> HIDE DEF s, v, m
  <2>2. QED
    BY <1>1, <2>1
<1>3. s \in Nat /\ s > 0
  BY <1>1 DEF StatusDue
<1>4. v \in Nat /\ (current_page' = PAGE_SERVICES => v > 0)
  BY <1>1 DEF ServicesDue
<1>5. m \in Int /\ (menu_active' => m > 0)
  <2>1. menu_active' => menu_active /\ ~MenuDue
    OBVIOUS
  <2>2. menu_active /\ ~MenuDue => left.menu > 0
    BY <1>1 DEF MenuDue
  <2>3. CASE menu_active'
    <3>1. m = left.menu
      BY <2>3
    <3>2. QED
      BY <1>1, <2>1, <2>2, <2>3, <3>1
  <2>4. CASE ~menu_active'
    <3>1. m = 0
      BY <2>4
    <3>2. QED
      BY <2>4, <3>1
  <2>5. QED
    BY <2>3, <2>4
<1> HIDE DEF s, v, m
<1>6. QED
  BY <1>1, <1>2, <1>3, <1>4, <1>5 DEF Left

\* Setting the next frame touches no other deadline.
LEMMA FrameSet ==
  ASSUME NEW l \in Left, NEW f \in Int
  PROVE  /\ [l EXCEPT !.frame = f] \in Left
         /\ [l EXCEPT !.frame = f].frame = f
         /\ [l EXCEPT !.frame = f].status = l.status
         /\ [l EXCEPT !.frame = f].service = l.service
         /\ [l EXCEPT !.frame = f].menu = l.menu
BY DEF Left

\* With nothing to draw, before the frame that draws it, or with the drawing: the next
\* frame lies ahead of the time the tasks worked with.
LEMMA TasksFrame ==
  ASSUME OldLoopInv
  PROVE  next_frame \in Nat \ {0}
<1>1. FrameTime \in Int
  BY Types DEF FrameTime, Left
<1>2. CASE ~need_render
  BY <1>2 DEF next_frame
<1>3. CASE need_render /\ ~Renders
  <2>1. next_frame = FrameTime /\ ~(FrameTime <= 0)
    BY <1>3 DEF next_frame, Renders
  <2>2. QED
    BY <1>1, <2>1
<1>4. CASE need_render /\ Renders
  <2> DEFINE i == IF title_anim'.type # "none" THEN FRAME_INTERVAL_ANIM ELSE FRAME_INTERVAL
  <2>1. next_frame = NextFrame(FrameTime, i)
    BY <1>4 DEF next_frame
  <2>2. i \in Nat \ {0}
    OBVIOUS
  <2> HIDE DEF i
  <2>3. NextFrame(FrameTime, i) \in 1 .. i
    BY <1>1, <2>2, NextFrameAhead
  <2>4. QED
    BY <2>1, <2>2, <2>3
<1>5. QED
  BY <1>2, <1>3, <1>4

\* What the tasks do to the panel, whether they draw or not.
LEMMA TasksPanel ==
  ASSUME OldLoopInv, Tasks
  PROVE  /\ menu_selected' \in Nat /\ dirty' \in BOOLEAN /\ title_anim' \in Anim
         /\ ~display_on => title_anim' = title_anim
         /\ PanelFollows'
<1>1. /\ menu_active' = (menu_active /\ ~MenuDue) /\ menu_active' \in BOOLEAN
      /\ current_page' = current_page /\ display_on' = display_on
      /\ services' \in Lists \/ services' = services
      /\ ~ServicesDue => services' = services
  BY DEF Tasks
<1>2. IsListing(services')
  BY <1>1, Types, ListsAreListings
<1>3. Redraw \in BOOLEAN
  BY Types DEF Redraw, StatusDue, ServicesDue, MenuDue
<1>4. ~Redraw => services' = services /\ menu_active' = menu_active /\ ~dirty
  BY <1>1, Types DEF Redraw
<1>5. CASE ~Renders
  <2>1. /\ menu_selected' = menu_selected /\ panel' = panel /\ title_anim' = title_anim
        /\ dirty' = Redraw
    BY <1>5 DEF Tasks
  <2>2. PanelFollows'
    BY <1>1, <1>4, <2>1, Types DEF PanelFollows
  <2>3. QED
    BY <1>3, <2>1, <2>2, Types
<1>6. CASE Renders
  <2>1. Draw /\ dirty' = FALSE
    BY <1>6 DEF Tasks
  <2>2. CASE display_on
    <3>1. /\ menu_selected' = IF menu_active' /\ current_page = PAGE_SERVICES
                             THEN Selected(menu_selected, services') ELSE menu_selected
          /\ panel' = View(current_page, menu_active', menu_selected', services')
          /\ title_anim' = advance_title_anim(title_anim)
      BY <2>1, <2>2 DEF Draw
    <3>2. menu_active' => current_page = PAGE_SERVICES
      BY <1>1, Types DEF MenuIsVisible
    <3>3. menu_selected' \in Nat
      BY <1>2, <3>1, Types, SelectedInList
    <3>4. menu_active' /\ services' # <<>> => menu_selected' < Len(services')
      BY <1>2, <3>1, <3>2, Types, SelectedInList
    <3>5. title_anim' \in Anim
      BY <3>1, Types, AdvanceKeepsType
    <3>6. PanelFollows'
      BY <1>1, <3>1, <3>4 DEF PanelFollows
    <3>7. QED
      BY <2>1, <2>2, <3>3, <3>5, <3>6
  <2>3. CASE ~display_on
    <3>1. menu_selected' = menu_selected /\ title_anim' = title_anim
      BY <2>1, <2>3 DEF Draw
    <3>2. PanelFollows'
      BY <1>1, <2>3 DEF PanelFollows
    <3>3. QED
      BY <2>1, <3>1, <3>2, Types
  <2>4. QED
    BY <2>2, <2>3
<1>7. QED
  BY <1>5, <1>6

LEMMA TasksStep ==
  ASSUME OldLoopInv, Tasks
  PROVE  OldLoopInv'
<1>1. /\ menu_active' = (menu_active /\ ~MenuDue) /\ menu_active' \in BOOLEAN
      /\ current_page' = current_page /\ display_on' = display_on
      /\ event' = event /\ running' = running
      /\ services' \in Lists \/ services' = services
      /\ pc' \in {"wait", "down"}
  BY DEF Tasks
<1>2. IsListing(services')
  BY <1>1, Types, ListsAreListings
<1>3. PICK d \in 0 .. Toil :
        spent' = d /\ left' = Pass([Restart(left) EXCEPT !.frame = next_frame], d)
  BY DEF Tasks
<1>4. /\ Restart(left) \in Left
      /\ Restart(left).status > 0
      /\ current_page' = PAGE_SERVICES => Restart(left).service > 0
      /\ menu_active' => Restart(left).menu > 0
  BY <1>1, Types, RestartAhead
<1>5. /\ left' \in Left /\ spent' \in Nat /\ left'.frame + spent' > 0 /\ left'.status + spent' > 0
      /\ current_page' = PAGE_SERVICES => left'.service + spent' > 0
      /\ menu_active' => left'.menu + spent' > 0
  <2> DEFINE r == Restart(left)
             l == [r EXCEPT !.frame = next_frame]
  <2>1. d \in Nat /\ spent' = d /\ left' = Pass(l, d)
    BY <1>3 DEF Toil
  <2>2. next_frame \in Nat \ {0}
    BY TasksFrame
  <2>3. /\ l \in Left /\ l.frame = next_frame /\ l.status = r.status
        /\ l.service = r.service /\ l.menu = r.menu
    <3>1. r \in Left
      BY <1>4
    <3> HIDE DEF r
    <3>2. QED
      BY <2>2, <3>1, FrameSet
  <2>4. /\ l.frame > 0 /\ l.status > 0
        /\ current_page' = PAGE_SERVICES => l.service > 0
        /\ menu_active' => l.menu > 0
    <3>1. l.frame > 0
      BY <2>2, <2>3
    <3> HIDE DEF l
    <3>2. QED
      BY <1>4, <2>3, <3>1
  <2> HIDE DEF l, r
  <2>5. /\ left' \in Left /\ left'.frame + d = l.frame /\ left'.status + d >= l.status
        /\ left'.service + d >= l.service /\ left'.menu + d >= l.menu
    BY <2>1, <2>3, PassKeepsType
  <2>6. /\ left'.frame \in Int /\ left'.status \in Int /\ left'.service \in Int /\ left'.menu \in Int
        /\ l.frame \in Int /\ l.status \in Int /\ l.service \in Int /\ l.menu \in Int
    BY <2>3, <2>5 DEF Left
  <2>7. QED
    BY <2>1, <2>4, <2>5, <2>6
<1>6. DeadlinesAhead'
  BY <1>5 DEF DeadlinesAhead
<1>7. OldLoopTypeOK'
  BY <1>1, <1>2, <1>5, TasksPanel DEF OldLoopInv, OldLoopTypeOK, IsListing
<1>8. MenuIsVisible'
  <2>1. menu_active' => menu_active
    BY <1>1
  <2>2. QED
    BY <1>1, <2>1, Types, TasksPanel DEF MenuIsVisible, is_animating
<1>9. QED
  BY <1>6, <1>7, <1>8, TasksPanel DEF OldLoopInv

LEMMA SignalStep ==
  ASSUME OldLoopInv, signal_handler \/ Interrupted
  PROVE  OldLoopInv'
<1>1. /\ pc' \in {pc, "down"} /\ running' \in {running, FALSE} /\ event' = event
      /\ left' = left /\ spent' = spent /\ current_page' = current_page
      /\ menu_active' = menu_active /\ menu_selected' = menu_selected /\ services' = services
      /\ display_on' = display_on /\ title_anim' = title_anim /\ dirty' = dirty /\ panel' = panel
  BY DEF signal_handler, Interrupted, viewVars
<1>2. OldLoopTypeOK'
  BY <1>1 DEF OldLoopInv, OldLoopTypeOK, IsListing
<1>3. DeadlinesAhead'
  BY <1>1 DEF OldLoopInv, DeadlinesAhead
<1>4. MenuIsVisible' /\ PanelFollows'
  BY <1>1 DEF OldLoopInv, MenuIsVisible, is_animating, PanelFollows, View
<1>5. QED
  BY <1>2, <1>3, <1>4 DEF OldLoopInv

LEMMA StutterInv ==
  ASSUME OldLoopInv, UNCHANGED vars
  PROVE  OldLoopInv'
<1>1. /\ pc' = pc /\ running' = running /\ event' = event
      /\ left' = left /\ spent' = spent /\ current_page' = current_page
      /\ menu_active' = menu_active /\ menu_selected' = menu_selected /\ services' = services
      /\ display_on' = display_on /\ title_anim' = title_anim /\ dirty' = dirty /\ panel' = panel
  BY DEF vars
<1>2. QED
  BY <1>1 DEF OldLoopInv, OldLoopTypeOK, IsListing, DeadlinesAhead, MenuIsVisible,
              is_animating, PanelFollows, View

LEMMA HandleButtonStep ==
  ASSUME OldLoopInv, handle_button
  PROVE  OldLoopInv'
<1>1. CASE NoButton
  BY <1>1, NoButtonStep
<1>2. CASE Wake
  BY <1>2, WakeStep
<1>3. CASE MenuMove("K1", -1) \/ MenuMove("K3", 1)
  BY <1>3, MenuMoveStep DEF Event
<1>4. CASE MenuAct
  BY <1>4, MenuActStep
<1>5. CASE MenuExit
  BY <1>5, MenuExitStep
<1>6. CASE MenuIgnores
  BY <1>6, MenuIgnoresStep
<1>7. CASE TurnPage("K1", -1) \/ TurnPage("K3", 1)
  BY <1>7, TurnPageStep DEF Event
<1>8. CASE PowerOff
  BY <1>8, PowerOffStep
<1>9. CASE MenuEnter
  BY <1>9, MenuEnterStep
<1>10. CASE Reject
  BY <1>10, RejectStep
<1>11. CASE PageIgnores
  BY <1>11, PageIgnoresStep
<1>12. QED
  BY <1>1, <1>2, <1>3, <1>4, <1>5, <1>6, <1>7, <1>8, <1>9, <1>10, <1>11 DEF handle_button

\* The invariant is inductive.
LEMMA StepInv == OldLoopInv /\ [Next]_vars => OldLoopInv'
<1> SUFFICES ASSUME OldLoopInv, [Next]_vars PROVE OldLoopInv'
  OBVIOUS
<1>1. CASE gpio_button_wait
  BY <1>1, WaitStep
<1>2. CASE handle_button
  BY <1>2, HandleButtonStep
<1>3. CASE Tasks
  BY <1>3, TasksStep
<1>4. CASE signal_handler \/ Interrupted
  BY <1>4, SignalStep
<1>5. CASE UNCHANGED vars
  BY <1>5, StutterInv
<1>6. QED
  BY <1>1, <1>2, <1>3, <1>4, <1>5 DEF Next, Loop

----------------------------------------------------------------------------
(* The theorems *)

\* The invariant holds in every state of the old daemon's loop: deadlines against the time
\* its tasks looked at, the menu's place, and the panel.
THEOREM OldLoopInvariant == Spec => []OldLoopInv
<1>1. Init => OldLoopInv
  BY InitInv
<1>2. OldLoopInv /\ [Next]_vars => OldLoopInv'
  BY StepInv
<1>3. QED
  BY <1>1, <1>2, PTL DEF Spec

\* The statics of main.c and the locals of its loop keep their types: the page number
\* stays one of the pages and the selection a place, however the lists change.
THEOREM OldLoopTypes == Spec => []OldLoopTypeOK
<1>1. OldLoopInv => OldLoopTypeOK
  BY DEF OldLoopInv
<1>2. QED
  BY <1>1, OldLoopInvariant, PTL

\* Every deadline the loop waits for lay ahead of the time its tasks worked with, for all
\* intervals and however long ubus, the slides and the tasks themselves block it (the timed
\* tasks of main): nothing that had come due by then is left for another round.
THEOREM OldLoopNothingLeftDue == Spec => []NothingLeftDue
<1>1. OldLoopInv => NothingLeftDue
  BY TimeoutAhead DEF OldLoopInv, OldLoopTypeOK, DeadlinesAhead, NothingLeftDue
<1>2. QED
  BY <1>1, OldLoopInvariant, PTL

\* A menu is only open on the services page of a lit display, and nothing is animated in
\* the dark (menu_enter, toggle_display and turning pages in main.c).
THEOREM OldLoopMenuIsVisible == Spec => []MenuIsVisible
<1>1. OldLoopInv => MenuIsVisible
  BY DEF OldLoopInv
<1>2. QED
  BY <1>1, OldLoopInvariant, PTL

\* Every place of main.c that changes what is shown asks for the redraw or draws: a
\* waiting loop with nothing to draw has the present page, menu, selection and service
\* states on its panel.
THEOREM OldLoopPanelIsCurrent == Spec => []PanelIsCurrent
<1>1. OldLoopInv => PanelIsCurrent
  BY DEF OldLoopInv, PanelFollows, PanelIsCurrent
<1>2. QED
  BY <1>1, OldLoopInvariant, PTL
=============================================================================
