----------------------------- MODULE Navigation -----------------------------
(***************************************************************************)
(* The Router, the Coordinator base class and the thirteen screens they    *)
(* move between.  A coordinator pushes its view controller through the     *)
(* router, which keeps a closure and a shouldPop flag per controller; the  *)
(* parent stores the child coordinator until the child's close is sent.    *)
(* The back button of the navigation bar (and its long-press menu) pops    *)
(* inside UIKit (external), past router and coordinators: only the         *)
(* delegate call didShow hears of it, when the animation is over.          *)
(*                                                                         *)
(* A screen is known by its serial number in the order of creation: it     *)
(* stands for the controller, its description, and its coordinator.  No    *)
(* controller or coordinator is ever deallocated (coordinator, controller  *)
(* and view model hold each other), so weak references stay valid.         *)
(***************************************************************************)
EXTENDS Integers, Sequences, Functions

CONSTANTS
  MaxScreens,  \* bound: screens created since launch, the root included
  MaxPresses,  \* bound: unanswered requests of one screen
  MaxAuth      \* bound: sign-ins under way

ASSUME NavigationAssumption ==
  MaxScreens \in Nat \ {0} /\ MaxPresses \in Nat /\ MaxAuth \in Nat

Root == 1

\* The screens the start() of each coordinator is wired to go to.
PlacesListOpens == {"SelectRegion", "Profile", "PlaceDetails"}
SelectRegionOpens == {"FillAddress", "SelectGroup"}
FillAddressOpens == {"SelectGroup", "EnterStreet"}
EnterStreetOpens == {"SelectBuilding"}
SelectBuildingOpens == {"CreatePlace"}
SelectGroupOpens == {"CreatePlace"}
ProfileOpens == {"CreateReport", "ReportsHistory", "CreateRegion"}
ReportsHistoryOpens == {"ReportDetails"}
NothingOpens == {}

Opens == [
  PlacesList     |-> PlacesListOpens,
  SelectRegion   |-> SelectRegionOpens,
  FillAddress    |-> FillAddressOpens,
  EnterStreet    |-> EnterStreetOpens,
  SelectBuilding |-> SelectBuildingOpens,
  SelectGroup    |-> SelectGroupOpens,
  CreatePlace    |-> NothingOpens,
  PlaceDetails   |-> NothingOpens,
  Profile        |-> ProfileOpens,
  CreateReport   |-> NothingOpens,
  ReportsHistory |-> ReportsHistoryOpens,
  ReportDetails  |-> NothingOpens,
  CreateRegion   |-> NothingOpens]

Kinds == DOMAIN Opens

\* The screens that read currentUser! or are about the signed-in user.
UserKinds == {"Profile", "CreateReport", "ReportsHistory", "ReportDetails", "CreateRegion"}

VARIABLES
  made,        \* the screens created: kind, the screen that opened it, shouldPop
  stack,       \* navigationController.viewControllers
  showing,     \* the controller an animation leaves, Idle if there is none
  closures,    \* keys of Router.closures
  shouldPops,  \* keys of Router.shouldPops
  stored,      \* the coordinators in their parent's childCoordinators
  awaited,     \* per screen: deletes or uploads that have not called back
  jumped,      \* history: screens the back menu skipped over
  signedIn,    \* is there a currentUser?
  auths,       \* sign-ins that have not called back
  forced       \* history: the profile that was open when FirebaseAuth last signed
               \* the user out, 0 if none or if there is a user again

router == <<stack, showing, closures, shouldPops>>
account == <<signedIn, auths, forced>>
vars == <<made, router, stored, awaited, jumped, account>>

Idle == 0
Ids == 1..MaxScreens
Screen == [kind : Kinds, parent : 0..MaxScreens, shouldPop : BOOLEAN]

TypeOK ==
  /\ made \in Seq(Screen)
  /\ Len(made) \in Ids
  /\ stack \in Seq(1..Len(made)) /\ stack # <<>>
  /\ showing \in 0..Len(made)
  /\ closures \in SUBSET (1..Len(made))
  /\ shouldPops \in SUBSET (1..Len(made))
  /\ stored \in SUBSET (1..Len(made))
  /\ awaited \in [Ids -> 0..MaxPresses]
  /\ jumped \in SUBSET (1..Len(made))
  /\ signedIn \in BOOLEAN
  /\ auths \in 0..MaxAuth
  /\ forced \in 0..Len(made)

Top == stack[Len(stack)]
TopKind == made[Top].kind

\* Is a screen about the user open?  The second one is the profile then.
UserScreenOpen == \E i \in DOMAIN stack : made[stack[i]].kind \in UserKinds

\* Touches reach a screen only while no animation runs.
Touchable == showing = Idle

-----------------------------------------------------------------------------

Init ==
  /\ made = <<[kind |-> "PlacesList", parent |-> 0, shouldPop |-> FALSE]>>
  /\ stack = <<Root>>
  /\ showing = Idle
  /\ closures = {} /\ shouldPops = {} /\ stored = {}
  /\ awaited = [s \in Ids |-> 0]
  /\ jumped = {}
  /\ signedIn \in BOOLEAN
  /\ auths = 0
  /\ forced = 0

\* Router.push
Push(s) ==
  /\ closures' = closures \cup {s}
  /\ shouldPops' = shouldPops \cup {s}
  /\ stack' = Append(stack, s)
  /\ showing' = Top

\* A faulty Router.pop: no look at the top controller or the depth.
PopBlindly(s) ==
  /\ stack' = SubSeq(stack, 1, Len(stack) - 1)
  /\ showing' = Top
  /\ closures' = closures \ {Top}
  /\ shouldPops' = shouldPops \ {Top}

\* A faulty Router.pop: whatever is on top is popped.
PopTop(s) ==
  \/ /\ Len(stack) > 1
     /\ stack' = SubSeq(stack, 1, Len(stack) - 1)
     /\ showing' = Top
     /\ closures' = closures \ {Top}
     /\ shouldPops' = shouldPops \ {Top}
  \/ /\ Len(stack) = 1
     /\ UNCHANGED router

\* Router.pop: nothing unless s is the top controller.
Pop(s) ==
  \/ /\ Top = s /\ Len(stack) > 1
     /\ stack' = SubSeq(stack, 1, Len(stack) - 1)
     /\ showing' = s
     /\ closures' = closures \ {s}
     /\ shouldPops' = shouldPops \ {s}
  \/ /\ ~(Top = s /\ Len(stack) > 1)
     /\ UNCHANGED router

\* Router.popToRoot
PopToRoot ==
  LET popped == Range(stack) \ {Root}
  IN  /\ stack' = <<Root>>
      /\ showing' = Top
      /\ closures' = closures \ popped
      /\ shouldPops' = shouldPops \ popped

\* A faulty coordinate: the child is not stored.
CoordinateUnstored(kind) ==
  LET s == Len(made) + 1
  IN  /\ made' = Append(made, [kind |-> kind, parent |-> Top, shouldPop |-> FALSE])
      /\ UNCHANGED stored
      /\ Push(s)

\* coordinate(to:): the parent stores the child, whose start() builds the
\* screen and pushes it with shouldPop false.
Coordinate(kind) ==
  LET s == Len(made) + 1
  IN  /\ made' = Append(made, [kind |-> kind, parent |-> Top, shouldPop |-> FALSE])
      /\ stored' = stored \cup {s}
      /\ Push(s)

\* A goTo... of the top screen.  The profile is only opened with a user.
GoTo(kind) ==
  /\ Touchable
  /\ kind \in Opens[TopKind]
  /\ kind = "Profile" => signedIn
  /\ Len(made) < MaxScreens
  /\ Coordinate(kind)
  /\ UNCHANGED <<awaited, jumped, account>>

\* routing.close of s: the coordinator pops its controller, then the parent
\* frees the coordinator.
Close(s) ==
  /\ Pop(s)
  /\ stored' = stored \ {s}

\* deletePlace, and createReport of a user: a request whose answer closes
\* the screen.  The button stays enabled.
Request ==
  /\ Touchable
  /\ TopKind = "PlaceDetails" \/ (TopKind = "CreateReport" /\ signedIn)
  /\ awaited[Top] < MaxPresses
  /\ awaited' = [awaited EXCEPT ![Top] = @ + 1]
  /\ UNCHANGED <<made, router, stored, jumped, account>>

\* The answer to a request of s arrives, successful or not, at any time.
Answer(s) ==
  /\ awaited[s] > 0
  /\ awaited' = [awaited EXCEPT ![s] = @ - 1]
  /\ Close(s)
  /\ UNCHANGED <<made, jumped, account>>

\* createRegion closes at once; without a user it does nothing.
CreateRegion ==
  /\ Touchable
  /\ TopKind = "CreateRegion" /\ signedIn
  /\ Close(Top)
  /\ UNCHANGED <<made, awaited, jumped, account>>

\* A faulty signOut: the profile stays open.
SignOutStay ==
  /\ Touchable
  /\ TopKind = "Profile"
  /\ signedIn' = FALSE
  /\ UNCHANGED <<made, router, stored, awaited, jumped, auths, forced>>

\* signOut of the profile; when Auth.signOut throws nothing changes.
SignOut ==
  /\ Touchable
  /\ TopKind = "Profile"
  /\ signedIn' = FALSE
  /\ Close(Top)
  /\ UNCHANGED <<made, awaited, jumped, auths, forced>>

\* save of a new place: popToRoot, and only this coordinator is freed.
Save ==
  /\ Touchable
  /\ TopKind = "CreatePlace"
  /\ PopToRoot
  /\ stored' = stored \ {Top}
  /\ UNCHANGED <<made, awaited, jumped, account>>

-----------------------------------------------------------------------------
(* UIKit and the sign-in service (external).                               *)

\* The back button, or an entry of its menu: n controllers stay.
Back(n) ==
  /\ Touchable
  /\ n \in 1..(Len(stack) - 1)
  /\ stack' = SubSeq(stack, 1, n)
  /\ showing' = Top
  /\ jumped' = jumped \cup {stack[i] : i \in (n + 1)..(Len(stack) - 1)}
  /\ UNCHANGED <<made, closures, shouldPops, stored, awaited, account>>

\* A faulty didShow: closures are never dropped.
DidShowOnly ==
  /\ showing # Idle
  /\ showing' = Idle
  /\ UNCHANGED <<made, stack, closures, shouldPops, stored, awaited, jumped, account>>

\* didShow: the closure of a controller that has left the stack is run and
\* dropped; its shouldPops entry is not.
DidShow ==
  /\ showing # Idle
  /\ showing' = Idle
  /\ closures' = IF showing \in Range(stack) THEN closures ELSE closures \ {showing}
  /\ UNCHANGED <<made, stack, shouldPops, stored, awaited, jumped, account>>

\* openAccount without a user.
SignUp ==
  /\ Touchable
  /\ TopKind = "PlacesList" /\ ~signedIn
  /\ auths < MaxAuth
  /\ auths' = auths + 1
  /\ UNCHANGED <<made, router, stored, awaited, jumped, signedIn, forced>>

\* Auth.signIn calls back, on whatever screen, with a user or an error.
SignUpDone ==
  /\ auths > 0
  /\ auths' = auths - 1
  /\ \/ signedIn' = TRUE /\ forced' = 0
     \/ UNCHANGED <<signedIn, forced>>
  /\ UNCHANGED <<made, router, stored, awaited, jumped>>

\* FirebaseAuth signs the user out by itself, on whatever screen, when the
\* server says that the account or its token is not valid.  No screen listens.
ForcedSignOut ==
  /\ signedIn
  /\ signedIn' = FALSE
  /\ forced' = IF UserScreenOpen THEN stack[2] ELSE 0
  /\ UNCHANGED <<made, router, stored, awaited, jumped, auths>>

\* The app is killed and started again; the sign-in is kept.
Relaunch ==
  /\ made' = SubSeq(made, 1, 1)
  /\ stack' = <<Root>>
  /\ showing' = Idle
  /\ closures' = {} /\ shouldPops' = {} /\ stored' = {}
  /\ awaited' = [s \in Ids |-> 0]
  /\ jumped' = {}
  /\ auths' = 0 /\ forced' = 0
  /\ UNCHANGED signedIn

Next ==
  \/ \E kind \in Kinds : GoTo(kind)
  \/ Request \/ CreateRegion \/ SignOut \/ Save
  \/ \E s \in Ids : Answer(s)
  \/ \E n \in Ids : Back(n)
  \/ DidShow \/ SignUp \/ SignUpDone \/ ForcedSignOut \/ Relaunch

Spec == Init /\ [][Next]_vars

-----------------------------------------------------------------------------

\* gestureRecognizerShouldBegin
ShouldBegin == Len(stack) > 1 /\ Top \in shouldPops /\ made[Top].shouldPop

\* Safety.  Each screen lies on the screen whose coordinator opened it, and
\* that coordinator is still the one that stores it: no answer, sign-out or
\* save leaves an orphan on the stack.
StackIsCoordinated ==
  /\ stack[1] = Root
  /\ \A i \in 2..Len(stack) : /\ made[stack[i]].parent = stack[i - 1]
                              /\ stack[i] \in stored

\* Safety.  A screen about the user is on the stack without a user only while
\* the profile below it is one that was open when FirebaseAuth signed the user
\* out by force.  The app itself never gets there, by its own sign-out, by a
\* late or failed sign-in or by going back: once such a profile is left,
\* currentUser! of the profile and the silent guards of createReport and
\* createRegion find a user again.
UserScreensSignedIn == UserScreenOpen => signedIn \/ stack[2] = forced

\* Safety.  The router keeps the closure of every controller on the stack
\* and, between animations, of no other, save those the back menu skipped;
\* and no entry of shouldPops, stale ones included, lets the swipe back begin.
ClosuresMatchStack ==
  /\ Range(stack) \ {Root} \subseteq closures \cap shouldPops
  /\ Touchable => closures \subseteq Range(stack) \cup jumped
  /\ ~ShouldBegin

\* Action property.  The answer to a request closes the screen that asked for
\* it or nothing, and never starts a pop while another animation runs.
LateAnswersHarmless ==
  [][\A s \in Ids : awaited'[s] < awaited[s] /\ made' = made /\ stack' # stack =>
       Top = s /\ Touchable /\ stack' = SubSeq(stack, 1, Len(stack) - 1)]_vars

=============================================================================
