--------------------------- MODULE NavigationProofs ---------------------------
(***************************************************************************)
(* Proofs about Navigation, for any number of screens, presses and         *)
(* sign-ins.                                                               *)
(***************************************************************************)
EXTENDS Navigation, SequenceTheorems, TLAPS

\* The screens that send requests open no other screen.
Requesting == {"PlaceDetails", "CreateReport"}

\* Who opened whom; nothing opens the list of places again.
KindInv ==
  /\ made[1].kind = "PlacesList"
  /\ \A s \in 1..Len(made) : made[s].shouldPop = FALSE
  /\ \A s \in 2..Len(made) : /\ made[s].parent \in 1..Len(made)
                             /\ made[s].kind \in Opens[made[made[s].parent].kind]

\* Screens lie on the stack in the order of their creation.
StackInv ==
  /\ \A i, j \in DOMAIN stack : i < j => stack[i] < stack[j]
  /\ StackIsCoordinated

\* A screen that waits for an answer is covered by no other, and while it is
\* on top no animation runs.
AwaitInv ==
  \A s \in Ids : awaited[s] > 0 =>
    /\ s \in 1..Len(made) /\ made[s].kind \in Requesting
    /\ s = Top => Touchable

\* During an animation there is one closure more: that of the controller the
\* animation leaves.
ClosureInv ==
  /\ Range(stack) \ {Root} \subseteq closures \cap shouldPops
  /\ closures \subseteq Range(stack) \cup jumped \cup {showing}

IInv == TypeOK /\ KindInv /\ StackInv /\ AwaitInv /\ ClosureInv /\ UserScreensSignedIn

-----------------------------------------------------------------------------
(* Kinds.                                                                  *)

USE DEF Root, Idle

LEMMA OpensType == \A k \in Kinds : Opens[k] \subseteq Kinds \ {"PlacesList"}
BY DEF Kinds, Opens, PlacesListOpens, SelectRegionOpens, FillAddressOpens, EnterStreetOpens,
       SelectBuildingOpens, SelectGroupOpens, ProfileOpens, ReportsHistoryOpens, NothingOpens

LEMMA OpensNothing == \A k \in Requesting : Opens[k] = {}
BY DEF Requesting, Opens, NothingOpens

\* The profile is opened from the list, the other user screens from one
\* another.
LEMMA OpensUser ==
  ASSUME NEW k \in Kinds, NEW kind \in Opens[k], kind \in UserKinds
  PROVE  IF kind = "Profile" THEN k = "PlacesList" ELSE k \in UserKinds
BY DEF Kinds, Opens, PlacesListOpens, SelectRegionOpens, FillAddressOpens, EnterStreetOpens,
       SelectBuildingOpens, SelectGroupOpens, ProfileOpens, ReportsHistoryOpens, NothingOpens,
       UserKinds

\* The list is in none of the special sets.
LEMMA ListKind == "PlacesList" \in Kinds /\ "PlacesList" \notin UserKinds /\ "PlacesList" \notin Requesting
BY DEF Kinds, Opens, UserKinds, Requesting

-----------------------------------------------------------------------------
(* What the invariant says of the stack.                                   *)

LEMMA Depth ==
  ASSUME IInv
  PROVE  /\ Len(stack) \in Nat \ {0} /\ DOMAIN stack = 1..Len(stack)
         /\ Len(made) \in Nat \ {0} /\ DOMAIN made = 1..Len(made)
         /\ \A s \in 1..Len(made) : s \in Ids /\ made[s] \in Screen
         /\ \A i \in 1..Len(stack) : stack[i] \in 1..Len(made)
         /\ Top \in 1..Len(made)
         /\ stack[1] = 1
         /\ \A i \in 2..Len(stack) : stack[i] \in 2..Len(made)
<1>1. stack \in Seq(1..Len(made)) /\ stack # <<>> /\ made \in Seq(Screen) /\ Len(made) \in Ids
  BY DEF IInv, TypeOK
<1>2. Len(stack) \in Nat \ {0} /\ DOMAIN stack = 1..Len(stack)
  BY <1>1
<1>3. Len(made) \in Nat \ {0} /\ DOMAIN made = 1..Len(made) /\ Len(made) <= MaxScreens /\ MaxScreens \in Nat
  BY <1>1, NavigationAssumption DEF NavigationAssumption, Ids
<1>4. \A s \in 1..Len(made) : s \in Ids /\ made[s] \in Screen
  BY <1>1, <1>3 DEF Ids
<1>5. \A i \in 1..Len(stack) : stack[i] \in 1..Len(made)
  BY <1>1, <1>2
<1>6. Top \in 1..Len(made)
  BY <1>2, <1>5 DEF Top
<1>7. stack[1] = 1
  BY DEF IInv, StackInv, StackIsCoordinated
<1>8. \A i \in 2..Len(stack) : stack[i] \in 2..Len(made)
  <2> TAKE i \in 2..Len(stack)
  <2>1. 1 \in DOMAIN stack /\ i \in DOMAIN stack /\ 1 < i
    BY <1>2
  <2>2. stack[1] < stack[i]
    BY <2>1 DEF IInv, StackInv
  <2> QED BY <1>2, <1>3, <1>5, <1>7, <2>1, <2>2
<1> QED BY <1>2, <1>3, <1>4, <1>5, <1>6, <1>7, <1>8

\* The screen under another one opened it.
LEMMA Covered ==
  ASSUME IInv, NEW i \in 1..(Len(stack) - 1)
  PROVE  /\ made[stack[i]].kind \in Kinds
         /\ made[stack[i + 1]].kind \in Opens[made[stack[i]].kind]
         /\ awaited[stack[i]] = 0
         /\ stack[i] < Top
<1>1. /\ Len(stack) \in Nat \ {0} /\ i + 1 \in 2..Len(stack) /\ i \in 1..Len(stack) /\ i < Len(stack)
      /\ i + 1 - 1 = i
  BY Depth
<1>2. stack[i] \in 1..Len(made) /\ stack[i + 1] \in 2..Len(made) /\ stack[i] \in Ids
  BY <1>1, Depth
<1>3. made[stack[i + 1]].parent = stack[i]
  BY <1>1 DEF IInv, StackInv, StackIsCoordinated
<1>4. made[stack[i]] \in Screen
  BY <1>2, Depth
<1>5. made[stack[i]].kind \in Kinds
  BY <1>4 DEF Screen
<1>6. made[stack[i + 1]].kind \in Opens[made[stack[i]].kind]
  BY <1>2, <1>3 DEF IInv, KindInv
<1>7. made[stack[i]].kind \notin Requesting
  BY <1>6, OpensNothing
<1>8. awaited[stack[i]] \in Nat /\ ~(awaited[stack[i]] > 0)
  <2>1. awaited[stack[i]] \in 0..MaxPresses
    BY <1>2 DEF IInv, TypeOK
  <2>2. ~(awaited[stack[i]] > 0)
    BY <1>2, <1>7 DEF IInv, AwaitInv
  <2> QED BY <2>1, <2>2, NavigationAssumption DEF NavigationAssumption
<1>9. stack[i] < Top
  BY <1>1, Depth DEF IInv, StackInv, Top
<1> QED BY <1>5, <1>6, <1>8, <1>9

LEMMA Shorter ==
  ASSUME IInv, NEW n \in 1..(Len(stack) - 1), stack' = SubSeq(stack, 1, n)
  PROVE  /\ stack' \in Seq(1..Len(made)) /\ stack' # <<>>
         /\ Len(stack') = n /\ DOMAIN stack' = 1..n
         /\ \A i \in 1..n : stack'[i] = stack[i]
         /\ Top' = stack[n]
<1>1. /\ n \in Int /\ 1 \in Int /\ 1 <= n /\ \A i \in 1..n : i \in 1..Len(stack)
      /\ 1..(n - 1 + 1) = 1..n /\ n - 1 + 1 = n
  BY Depth
<1>2. \A i \in 1..n : stack[i] \in 1..Len(made)
  BY <1>1, Depth
<1>3. /\ SubSeq(stack, 1, n) \in Seq(1..Len(made))
      /\ Len(SubSeq(stack, 1, n)) = IF 1 <= n THEN n - 1 + 1 ELSE 0
      /\ \A i \in 1..(n - 1 + 1) : SubSeq(stack, 1, n)[i] = stack[1 + i - 1]
  BY <1>1, <1>2, SubSeqProperties
<1>4. stack' \in Seq(1..Len(made)) /\ Len(stack') = n
  BY <1>1, <1>3
<1>5. \A i \in 1..n : stack'[i] = stack[i]
  BY <1>1, <1>3
<1>6. stack' # <<>> /\ DOMAIN stack' = 1..n
  BY <1>1, <1>4
<1>7. Top' = stack[n]
  BY <1>1, <1>4, <1>5 DEF Top
<1> QED BY <1>4, <1>5, <1>6, <1>7

\* What every pop keeps: the lower part of the stack, and nothing awaited on
\* its new top.
LEMMA Popped ==
  ASSUME IInv, NEW n \in 1..(Len(stack) - 1), stack' = SubSeq(stack, 1, n),
         made' = made, awaited' \in [Ids -> 0..MaxPresses],
         \A s \in Ids : awaited'[s] <= awaited[s],
         stored' = stored \/ \E i \in (n + 1)..Len(stack) : stored' = stored \ {stack[i]}
  PROVE  KindInv' /\ StackInv' /\ AwaitInv'
<1>1. /\ Len(stack') = n /\ DOMAIN stack' = 1..n /\ Top' = stack[n]
      /\ \A i \in 1..n : stack'[i] = stack[i]
  BY Shorter
<1>2. /\ n \in 1..Len(stack) /\ Len(stack) \in Nat \ {0} /\ stack[1] = 1
      /\ DOMAIN stack = 1..Len(stack) /\ \A i \in 1..n : i \in 1..Len(stack)
  BY Depth
<1>3. KindInv'
  BY DEF IInv, KindInv
<1>4. \A i, j \in DOMAIN stack' : i < j => stack'[i] < stack'[j]
  BY <1>1, <1>2 DEF IInv, StackInv
<1>5. StackIsCoordinated'
  <2>1. stack'[1] = 1
    BY <1>1, <1>2
  <2>2. ASSUME NEW i \in 2..n
        PROVE  /\ made[stack[i]].parent = stack[i - 1]
               /\ stack[i] \in stored'
    <3>1. i \in 2..Len(stack) /\ i \in DOMAIN stack
      BY <1>2
    <3>2. made[stack[i]].parent = stack[i - 1] /\ stack[i] \in stored
      BY <3>1 DEF IInv, StackInv, StackIsCoordinated
    <3>3. ASSUME NEW j \in (n + 1)..Len(stack)
          PROVE  stack[i] # stack[j]
      <4>1. j \in DOMAIN stack /\ i < j
        BY <1>2
      <4>2. stack[i] < stack[j]
        BY <3>1, <4>1 DEF IInv, StackInv
      <4>3. stack[i] \in Int /\ stack[j] \in Int
        BY <1>2, <3>1, <4>1, Depth
      <4> QED BY <4>2, <4>3
    <3> QED BY <3>2, <3>3
  <2>3. ASSUME NEW i \in 2..Len(stack')
        PROVE  made'[stack'[i]].parent = stack'[i - 1] /\ stack'[i] \in stored'
    <3>1. i \in 2..n /\ i \in 1..n /\ i - 1 \in 1..n
      BY <1>1, <1>2
    <3> QED BY <1>1, <2>2, <3>1
  <2> QED BY <2>1, <2>3 DEF StackIsCoordinated
<1>6. AwaitInv'
  <2> SUFFICES ASSUME NEW s \in Ids, awaited'[s] > 0
               PROVE  s \in 1..Len(made) /\ made[s].kind \in Requesting /\ s # Top'
    BY DEF AwaitInv
  <2>1. awaited[s] > 0
    <3>1. awaited'[s] \in 0..MaxPresses /\ awaited[s] \in 0..MaxPresses /\ awaited'[s] <= awaited[s]
      BY DEF IInv, TypeOK
    <3> QED BY <3>1, NavigationAssumption DEF NavigationAssumption
  <2>2. s \in 1..Len(made) /\ made[s].kind \in Requesting
    BY <2>1 DEF IInv, AwaitInv
  <2>3. awaited[stack[n]] = 0
    BY Covered
  <2> QED BY <1>1, <2>1, <2>2, <2>3
<1> QED BY <1>3, <1>4, <1>5, <1>6 DEF StackInv

LEMMA PoppedUser ==
  ASSUME IInv, NEW n \in 1..(Len(stack) - 1), stack' = SubSeq(stack, 1, n),
         made' = made, forced' = forced, signedIn' = signedIn \/ n = 1
  PROVE  UserScreensSignedIn'
<1> SUFFICES ASSUME NEW i \in DOMAIN stack', made'[stack'[i]].kind \in UserKinds
             PROVE  signedIn' \/ stack'[2] = forced'
  BY DEF UserScreensSignedIn, UserScreenOpen
<1>1. i \in 1..n /\ stack'[i] = stack[i]
  BY Shorter
<1>2. i \in DOMAIN stack /\ made[stack[i]].kind \in UserKinds
  BY <1>1, Depth
<1>3. n # 1
  <2> SUFFICES ASSUME n = 1 PROVE FALSE
    OBVIOUS
  <2>1. i = 1
    BY <1>1
  <2>2. made[stack[i]].kind = "PlacesList"
    BY <2>1, Depth DEF IInv, KindInv
  <2> QED BY <1>2, <2>2, ListKind
<1>4. stack'[2] = stack[2]
  <2>1. 2 \in 1..n
    BY <1>3, Depth
  <2> QED BY <2>1, Shorter
<1> QED BY <1>2, <1>3, <1>4 DEF IInv, UserScreensSignedIn, UserScreenOpen

\* A close of the top screen, between animations.
LEMMA CloseStep ==
  ASSUME IInv, Touchable, Len(stack) > 1, Close(Top), made' = made, jumped' = jumped,
         awaited' \in [Ids -> 0..MaxPresses], \A s \in Ids : awaited'[s] <= awaited[s],
         auths' \in 0..MaxAuth, signedIn' \in BOOLEAN,
         forced' = forced, signedIn' = signedIn \/ Len(stack) = 2
  PROVE  IInv'
<1> DEFINE n == Len(stack) - 1
<1>1. n \in 1..(Len(stack) - 1) /\ Len(stack) \in Nat /\ Len(stack) \in (n + 1)..Len(stack)
  BY Depth
<1>2. /\ stack' = SubSeq(stack, 1, n) /\ showing' = Top
      /\ closures' = closures \ {Top} /\ shouldPops' = shouldPops \ {Top}
      /\ stored' = stored \ {stack[Len(stack)]}
  BY DEF Close, Pop, Top
<1>3. /\ stack' \in Seq(1..Len(made)) /\ stack' # <<>> /\ DOMAIN stack' = 1..n
      /\ \A i \in 1..n : stack'[i] = stack[i]
  <2> HIDE DEF n
  <2> QED BY <1>1, <1>2, Shorter
<1>4. KindInv' /\ StackInv' /\ AwaitInv'
  <2> HIDE DEF n
  <2> QED BY <1>1, <1>2, Popped
<1>5. UserScreensSignedIn'
  <2>1. signedIn' = signedIn \/ n = 1
    OBVIOUS
  <2> HIDE DEF n
  <2> QED BY <1>1, <1>2, <2>1, PoppedUser
<1>6. TypeOK'
  <2>1. Top \in 0..Len(made)
    BY Depth
  <2> QED BY <1>2, <1>3, <2>1 DEF IInv, TypeOK
<1>7. ClosureInv'
  <2>0. DOMAIN stack = 1..Len(stack) /\ Len(stack) \in Nat \ {0}
    BY Depth
  <2>1. \A i \in 1..Len(stack) : i = Len(stack) \/ i \in 1..n
    <3>1. ASSUME NEW m \in Nat, NEW i \in 1..m
          PROVE  i = m \/ i \in 1..(m - 1)
      OBVIOUS
    <3>2. Len(stack) \in Nat
      BY <2>0
    <3> QED BY <3>1, <3>2
  <2>5. Len(stack) \in 1..Len(stack)
    BY <2>0
  <2>2. \A i \in 1..n : i \in 1..Len(stack) /\ stack[i] # Top
    <3> TAKE i \in 1..n
    <3>1. stack[i] < Top /\ i \in 1..Len(stack)
      BY <1>1, Covered
    <3> QED BY <3>1, Depth
  <2>3. Range(stack') = Range(stack) \ {Top}
    <3> HIDE DEF n
    <3>1. Range(stack') = {stack[i] : i \in 1..n}
      BY <1>3 DEF Range
    <3>2. Range(stack) = {stack[i] : i \in 1..Len(stack)} /\ Top = stack[Len(stack)]
      BY <2>0 DEF Range, Top
    <3>3. \A x \in Range(stack') : x \in Range(stack) \ {Top}
      BY <2>2, <3>1, <3>2
    <3>4. \A x \in Range(stack) \ {Top} : x \in Range(stack')
      BY <2>1, <3>1, <3>2
    <3> QED BY <3>3, <3>4
  <2>4. showing \notin closures
    BY Depth DEF IInv, TypeOK, Touchable
  <2> QED BY <1>2, <2>3, <2>4 DEF IInv, ClosureInv
<1> QED BY <1>4, <1>5, <1>6, <1>7 DEF IInv

\* A step that moves no screen and asks for no answer.
LEMMA StillStep ==
  ASSUME IInv, UNCHANGED <<made, router, stored, awaited, jumped>>,
         auths' \in 0..MaxAuth, signedIn' \in BOOLEAN, forced' \in 0..Len(made),
         \/ signedIn' = TRUE
         \/ signedIn' = signedIn /\ forced' = forced
         \/ forced' = stack[2] \/ ~UserScreenOpen
  PROVE  IInv'
<1>1. UNCHANGED <<made, stack, showing, closures, shouldPops, stored, awaited, jumped>>
  BY DEF router
<1>2. TypeOK'
  BY <1>1 DEF IInv, TypeOK
<1>3. KindInv'
  BY <1>1 DEF IInv, KindInv
<1>4. StackInv'
  BY <1>1 DEF IInv, StackInv, StackIsCoordinated
<1>5. AwaitInv'
  BY <1>1 DEF IInv, AwaitInv, Top, Touchable
<1>6. ClosureInv'
  BY <1>1 DEF IInv, ClosureInv
<1>7. UserScreensSignedIn'
  BY <1>1 DEF IInv, UserScreensSignedIn, UserScreenOpen
<1> QED BY <1>2, <1>3, <1>4, <1>5, <1>6, <1>7 DEF IInv

-----------------------------------------------------------------------------
(* The actions.                                                            *)

LEMMA NavigationInit == Init => IInv
<1> SUFFICES ASSUME Init PROVE IInv
  OBVIOUS
<1> DEFINE first == [kind |-> "PlacesList", parent |-> 0, shouldPop |-> FALSE]
<1>1. MaxScreens \in Nat \ {0} /\ MaxPresses \in Nat /\ MaxAuth \in Nat
  BY NavigationAssumption DEF NavigationAssumption
<1>2. first \in Screen
  BY <1>1, ListKind DEF Screen
<1>3. made = <<first>> /\ stack = <<1>>
  BY DEF Init
<1> HIDE DEF first
<1>4. /\ made \in Seq(Screen) /\ Len(made) = 1 /\ made[1] = first
      /\ stack \in Seq(1..1) /\ Len(stack) = 1 /\ stack[1] = 1 /\ stack # <<>> /\ DOMAIN stack = {1}
  BY <1>2, <1>3
<1>5. TypeOK
  BY <1>1, <1>4 DEF Init, TypeOK, Ids
<1>6. KindInv
  BY <1>4 DEF KindInv, first
<1>7. StackInv
  BY <1>4 DEF StackInv, StackIsCoordinated
<1>8. AwaitInv
  BY DEF Init, AwaitInv
<1>9. ClosureInv
  BY <1>4 DEF Init, ClosureInv, Range
<1>10. UserScreensSignedIn
  BY <1>4, ListKind DEF UserScreensSignedIn, UserScreenOpen, first
<1> QED BY <1>5, <1>6, <1>7, <1>8, <1>9, <1>10 DEF IInv

LEMMA GoToStep ==
  ASSUME IInv, NEW kind \in Kinds, GoTo(kind)
  PROVE  IInv'
<1> DEFINE s == Len(made) + 1
           new == [kind |-> kind, parent |-> Top, shouldPop |-> FALSE]
<1>1. /\ Touchable /\ kind \in Opens[TopKind] /\ (kind = "Profile" => signedIn)
      /\ Len(made) < MaxScreens
      /\ made' = Append(made, new) /\ stored' = stored \cup {s}
      /\ closures' = closures \cup {s} /\ shouldPops' = shouldPops \cup {s}
      /\ stack' = Append(stack, s) /\ showing' = Top
      /\ UNCHANGED <<awaited, jumped, signedIn, auths, forced>>
  BY DEF GoTo, Coordinate, Push, account
<1>2. /\ MaxScreens \in Nat \ {0} /\ Len(made) \in Nat \ {0} /\ Len(stack) \in Nat \ {0}
      /\ Top \in 1..Len(made) /\ DOMAIN stack = 1..Len(stack)
      /\ \A i \in 1..Len(stack) : stack[i] \in 1..Len(made)
      /\ made \in Seq(Screen) /\ stack \in Seq(1..Len(made))
  BY Depth, NavigationAssumption DEF NavigationAssumption, IInv, TypeOK
<1>3. new \in Screen
  BY <1>1, <1>2 DEF Screen
<1>4. /\ made' \in Seq(Screen) /\ Len(made') = s /\ made'[s] = new
      /\ \A t \in 1..Len(made) : made'[t] = made[t]
  <2> HIDE DEF new
  <2> QED BY <1>1, <1>2, <1>3, AppendProperties
<1>5. /\ stack' \in Seq(1..s) /\ Len(stack') = Len(stack) + 1 /\ stack' # <<>>
      /\ DOMAIN stack' = 1..(Len(stack) + 1)
      /\ \A i \in 1..Len(stack) : stack'[i] = stack[i]
      /\ stack'[Len(stack) + 1] = s /\ Top' = s
  <2>1. stack \in Seq(1..s) /\ s \in 1..s
    BY <1>2
  <2> HIDE DEF s
  <2>2. /\ stack' \in Seq(1..s) /\ Len(stack') = Len(stack) + 1 /\ stack' # <<>>
        /\ \A i \in 1..Len(stack) : stack'[i] = stack[i]
        /\ stack'[Len(stack) + 1] = s
    BY <1>1, <2>1, AppendProperties
  <2> QED BY <1>2, <2>2 DEF Top
<1>6. TopKind \in Kinds
  <2>1. made[Top] \in Screen
    BY <1>2, Depth
  <2> QED BY <2>1 DEF Screen, TopKind
<1> HIDE DEF new
<1>7. TypeOK'
  <2>1. s \in Ids /\ \A t \in 1..Len(made) : t \in 1..s
    BY <1>1, <1>2 DEF Ids
  <2>2. showing' \in 0..s
    BY <1>1, <1>2
  <2>3. /\ closures' \in SUBSET (1..s) /\ shouldPops' \in SUBSET (1..s)
        /\ stored' \in SUBSET (1..s) /\ jumped' \in SUBSET (1..s)
    <3>1. /\ closures \in SUBSET (1..Len(made)) /\ shouldPops \in SUBSET (1..Len(made))
          /\ stored \in SUBSET (1..Len(made)) /\ jumped \in SUBSET (1..Len(made))
      BY DEF IInv, TypeOK
    <3>2. s \in 1..s
      BY <1>2
    <3> HIDE DEF s
    <3> QED BY <1>1, <2>1, <3>1, <3>2
  <2>4. awaited' \in [Ids -> 0..MaxPresses] /\ signedIn' \in BOOLEAN /\ auths' \in 0..MaxAuth
    BY <1>1 DEF IInv, TypeOK
  <2>5. forced' \in 0..s
    BY <1>1, <1>2 DEF IInv, TypeOK
  <2> HIDE DEF s
  <2> QED BY <1>4, <1>5, <2>1, <2>2, <2>3, <2>4, <2>5 DEF TypeOK
<1>8. KindInv'
  <2>1. made'[1].kind = "PlacesList"
    BY <1>2, <1>4 DEF IInv, KindInv
  <2>2. \A t \in 1..s : made'[t].shouldPop = FALSE
    <3> TAKE t \in 1..s
    <3>1. CASE t = s
      BY <1>4, <3>1 DEF new
    <3>2. CASE t \in 1..Len(made)
      BY <1>4, <3>2 DEF IInv, KindInv
    <3>3. t = s \/ t \in 1..Len(made)
      <4>1. ASSUME NEW m \in Nat, NEW u \in 1..(m + 1)
            PROVE  u = m + 1 \/ u \in 1..m
        OBVIOUS
      <4>2. Len(made) \in Nat
        BY <1>2
      <4> QED BY <4>1, <4>2
    <3> QED BY <3>1, <3>2, <3>3
  <2>3. \A t \in 2..s : /\ made'[t].parent \in 1..s
                        /\ made'[t].kind \in Opens[made'[made'[t].parent].kind]
    <3> TAKE t \in 2..s
    <3>1. CASE t = s
      <4>1. made'[t].parent = Top /\ made'[t].kind = kind
        BY <1>4, <3>1 DEF new
      <4>2. made'[Top] = made[Top] /\ Top \in 1..s
        BY <1>2, <1>4
      <4> QED BY <1>1, <4>1, <4>2 DEF TopKind
    <3>2. CASE t \in 2..Len(made)
      <4>1. made'[t] = made[t]
        BY <1>2, <1>4, <3>2
      <4>2. made[t].parent \in 1..Len(made) /\ made[t].kind \in Opens[made[made[t].parent].kind]
        BY <3>2 DEF IInv, KindInv
      <4>3. made'[made[t].parent] = made[made[t].parent] /\ made[t].parent \in 1..s
        BY <1>2, <1>4, <4>2
      <4> QED BY <4>1, <4>2, <4>3
    <3> QED BY <1>2, <3>1, <3>2
  <2> HIDE DEF s
  <2> QED BY <1>4, <2>1, <2>2, <2>3 DEF KindInv
<1>9. StackInv'
  <2>1. ASSUME NEW i \in DOMAIN stack', NEW j \in DOMAIN stack', i < j
        PROVE  stack'[i] < stack'[j]
    <3>1. i \in 1..Len(stack) /\ (j \in 1..Len(stack) \/ j = Len(stack) + 1)
      BY <1>2, <1>5, <2>1
    <3>2. CASE j \in 1..Len(stack)
      BY <1>2, <1>5, <2>1, <3>1, <3>2 DEF IInv, StackInv
    <3>3. CASE j = Len(stack) + 1
      BY <1>2, <1>5, <3>1, <3>3
    <3> QED BY <3>1, <3>2, <3>3
  <2>2. stack'[1] = 1
    BY <1>2, <1>5, Depth
  <2>3. ASSUME NEW i \in 2..Len(stack')
        PROVE  made'[stack'[i]].parent = stack'[i - 1] /\ stack'[i] \in stored'
    <3>1. i - 1 \in 1..Len(stack) /\ (i \in 2..Len(stack) \/ i = Len(stack) + 1)
      BY <1>2, <1>5
    <3>2. CASE i \in 2..Len(stack)
      <4>1. i \in 1..Len(stack) /\ stack'[i] = stack[i] /\ stack'[i - 1] = stack[i - 1]
        <5>1. i \in 1..Len(stack)
          BY <1>2, <3>2
        <5> QED BY <1>5, <3>1, <5>1
      <4>2. made'[stack[i]] = made[stack[i]]
        BY <1>2, <1>4, <4>1
      <4>3. made[stack[i]].parent = stack[i - 1] /\ stack[i] \in stored
        BY <3>2 DEF IInv, StackInv, StackIsCoordinated
      <4> QED BY <1>1, <4>1, <4>2, <4>3
    <3>3. CASE i = Len(stack) + 1
      <4>1. stack'[i] = s /\ stack'[i - 1] = Top
        BY <1>2, <1>5, <3>1, <3>3 DEF Top
      <4> QED BY <1>1, <1>4, <4>1 DEF new
    <3> QED BY <3>1, <3>2, <3>3
  <2> QED BY <2>1, <2>2, <2>3 DEF StackInv, StackIsCoordinated
<1>10. AwaitInv'
  <2> SUFFICES ASSUME NEW t \in Ids, awaited[t] > 0
               PROVE  t \in 1..s /\ made'[t].kind \in Requesting /\ t # s
    BY <1>1, <1>4, <1>5 DEF AwaitInv
  <2>1. t \in 1..Len(made) /\ made[t].kind \in Requesting
    BY DEF IInv, AwaitInv
  <2> QED BY <1>2, <1>4, <2>1
<1>11. ClosureInv'
  <2>1. Range(stack') = Range(stack) \cup {s}
    <3>1. \A i \in 1..(Len(stack) + 1) : i \in 1..Len(stack) \/ i = Len(stack) + 1
      BY <1>2
    <3>2. \A i \in 1..Len(stack) : i \in 1..(Len(stack) + 1)
      BY <1>2
    <3>3. Len(stack) + 1 \in 1..(Len(stack) + 1)
      BY <1>2
    <3> HIDE DEF s
    <3> QED BY <1>2, <1>5, <3>1, <3>2, <3>3 DEF Range
  <2>2. showing \notin closures
    BY <1>1, <1>2 DEF IInv, TypeOK, Touchable
  <2> HIDE DEF s
  <2> QED BY <1>1, <2>1, <2>2 DEF IInv, ClosureInv
<1>12. UserScreensSignedIn'
  <2> SUFFICES ASSUME NEW i \in DOMAIN stack', made'[stack'[i]].kind \in UserKinds
               PROVE  signedIn \/ stack'[2] = forced
    BY <1>1 DEF UserScreensSignedIn, UserScreenOpen
  <2>1. CASE i \in 1..Len(stack)
    <3>1. stack'[i] = stack[i] /\ made'[stack[i]] = made[stack[i]] /\ i \in DOMAIN stack
      BY <1>2, <1>4, <1>5, <2>1
    <3>2. signedIn \/ stack[2] = forced
      BY <3>1 DEF IInv, UserScreensSignedIn, UserScreenOpen
    <3>3. i # 1
      BY <3>1, Depth, ListKind DEF IInv, KindInv
    <3>4. 2 \in 1..Len(stack)
      BY <1>2, <2>1, <3>3
    <3> QED BY <1>5, <3>2, <3>4
  <2>2. CASE i = Len(stack) + 1
    <3>1. kind \in UserKinds
      BY <1>4, <1>5, <2>2 DEF new
    <3>2. CASE kind = "Profile"
      BY <1>1, <3>2
    <3>3. CASE kind # "Profile"
      <4>1. TopKind \in UserKinds
        BY <1>1, <1>6, <3>1, <3>3, OpensUser
      <4>2. Len(stack) \in DOMAIN stack
        BY <1>2
      <4>3. signedIn \/ stack[2] = forced
        BY <4>1, <4>2 DEF IInv, UserScreensSignedIn, UserScreenOpen, TopKind, Top
      <4>4. Len(stack) # 1
        BY <4>1, Depth, ListKind DEF IInv, KindInv, TopKind, Top
      <4>5. 2 \in 1..Len(stack)
        BY <1>2, <4>4
      <4> QED BY <1>5, <4>3, <4>5
    <3> QED BY <3>2, <3>3
  <2> QED BY <1>2, <1>5, <2>1, <2>2
<1> QED BY <1>7, <1>8, <1>9, <1>10, <1>11, <1>12 DEF IInv

LEMMA RequestStep ==
  ASSUME IInv, Request
  PROVE  IInv'
<1>1. /\ UNCHANGED <<made, stack, showing, closures, shouldPops, stored, jumped, signedIn, auths, forced>>
      /\ awaited' = [awaited EXCEPT ![Top] = @ + 1] /\ awaited[Top] < MaxPresses
      /\ Touchable /\ TopKind \in Requesting
  BY DEF Request, router, account, Requesting
<1>2. Top \in 1..Len(made) /\ Top \in Ids
  BY Depth
<1>3. TypeOK'
  <2>1. awaited' \in [Ids -> 0..MaxPresses]
    BY <1>1, <1>2, NavigationAssumption DEF IInv, TypeOK, NavigationAssumption
  <2> QED BY <1>1, <2>1 DEF IInv, TypeOK
<1>4. KindInv'
  BY <1>1 DEF IInv, KindInv
<1>5. StackInv'
  BY <1>1 DEF IInv, StackInv, StackIsCoordinated
<1>6. AwaitInv'
  <2> SUFFICES ASSUME NEW s \in Ids, awaited'[s] > 0
               PROVE  s \in 1..Len(made) /\ made[s].kind \in Requesting
    BY <1>1 DEF AwaitInv, Touchable, Top
  <2>1. CASE s = Top
    BY <1>1, <1>2, <2>1 DEF TopKind
  <2>2. CASE s # Top
    <3>1. awaited'[s] = awaited[s]
      BY <1>1, <2>2 DEF IInv, TypeOK
    <3> QED BY <3>1 DEF IInv, AwaitInv
  <2> QED BY <2>1, <2>2
<1>7. ClosureInv'
  BY <1>1 DEF IInv, ClosureInv
<1>8. UserScreensSignedIn'
  BY <1>1 DEF IInv, UserScreensSignedIn, UserScreenOpen
<1> QED BY <1>3, <1>4, <1>5, <1>6, <1>7, <1>8 DEF IInv

\* The screen of a request: on top between animations, or off the stack.
LEMMA Asking ==
  ASSUME IInv, NEW s \in Ids, awaited[s] > 0
  PROVE  /\ s # 1
         /\ s = Top => Touchable /\ Len(stack) > 1
         /\ s # Top => \A i \in 1..Len(stack) : stack[i] # s
<1>1. s \in 1..Len(made) /\ made[s].kind \in Requesting /\ (s = Top => Touchable)
  BY DEF IInv, AwaitInv
<1>2. s # 1
  BY <1>1, ListKind DEF IInv, KindInv
<1>3. s = Top => Len(stack) > 1
  BY <1>2, Depth DEF Top
<1>4. ASSUME s # Top, NEW i \in 1..Len(stack)
      PROVE  stack[i] # s
  <2>1. CASE i = Len(stack)
    BY <1>4, <2>1 DEF Top
  <2>2. CASE i \in 1..(Len(stack) - 1)
    <3>1. awaited[stack[i]] = 0
      BY <2>2, Covered
    <3> QED BY <3>1
  <2>3. Len(stack) \in Nat
    BY Depth
  <2>4. i = Len(stack) \/ i \in 1..(Len(stack) - 1)
    <3>1. ASSUME NEW m \in Nat, NEW j \in 1..m
          PROVE  j = m \/ j \in 1..(m - 1)
      OBVIOUS
    <3> QED BY <2>3, <3>1
  <2> QED BY <2>1, <2>2, <2>4
<1> QED BY <1>1, <1>2, <1>3, <1>4

LEMMA AnswerStep ==
  ASSUME IInv, NEW s \in Ids, Answer(s)
  PROVE  IInv'
<1>1. /\ awaited[s] > 0 /\ awaited' = [awaited EXCEPT ![s] = @ - 1] /\ Close(s)
      /\ UNCHANGED <<made, jumped, signedIn, auths, forced>>
  BY DEF Answer, account
<1>2. awaited' \in [Ids -> 0..MaxPresses] /\ \A t \in Ids : awaited'[t] <= awaited[t]
  <2>1. awaited \in [Ids -> 0..MaxPresses] /\ MaxPresses \in Nat
    BY NavigationAssumption DEF IInv, TypeOK, NavigationAssumption
  <2>2. awaited[s] \in 0..MaxPresses /\ awaited[s] - 1 \in 0..MaxPresses
    BY <1>1, <2>1
  <2>3. awaited' \in [Ids -> 0..MaxPresses]
    BY <1>1, <2>1, <2>2
  <2>4. \A t \in Ids : awaited'[t] <= awaited[t]
    BY <1>1, <2>1, <2>2
  <2> QED BY <2>3, <2>4
<1>3. auths' \in 0..MaxAuth /\ signedIn' \in BOOLEAN
  BY <1>1 DEF IInv, TypeOK
<1>4. CASE s = Top
  <2>1. Touchable /\ Len(stack) > 1
    BY <1>1, <1>4, Asking
  <2> QED BY <1>1, <1>2, <1>3, <1>4, <2>1, CloseStep
<1>5. CASE s # Top
  <2>1. /\ UNCHANGED <<stack, showing, closures, shouldPops>> /\ stored' = stored \ {s}
    BY <1>1, <1>5 DEF Close, Pop, router
  <2>2. \A i \in 1..Len(stack) : stack[i] # s
    BY <1>1, <1>5, Asking
  <2>3. TypeOK'
    BY <1>1, <1>2, <2>1 DEF IInv, TypeOK
  <2>4. KindInv'
    BY <1>1 DEF IInv, KindInv
  <2>5. StackInv'
    <3>1. \A i \in 2..Len(stack) : stack[i] \in stored'
      BY <2>1, <2>2, Depth DEF IInv, StackInv, StackIsCoordinated
    <3> QED BY <1>1, <2>1, <3>1 DEF IInv, StackInv, StackIsCoordinated
  <2>6. AwaitInv'
    <3> SUFFICES ASSUME NEW t \in Ids, awaited'[t] > 0
                 PROVE  /\ t \in 1..Len(made) /\ made[t].kind \in Requesting
                        /\ t = Top => Touchable
      BY <1>1, <2>1 DEF AwaitInv, Touchable, Top
    <3>1. awaited[t] > 0
      <4>1. awaited[t] \in 0..MaxPresses /\ awaited'[t] \in 0..MaxPresses /\ awaited'[t] <= awaited[t]
        BY <1>2 DEF IInv, TypeOK
      <4> QED BY <4>1, NavigationAssumption DEF NavigationAssumption
    <3> QED BY <3>1 DEF IInv, AwaitInv
  <2>7. ClosureInv'
    BY <1>1, <2>1 DEF IInv, ClosureInv
  <2>8. UserScreensSignedIn'
    BY <1>1, <2>1 DEF IInv, UserScreensSignedIn, UserScreenOpen
  <2> QED BY <2>3, <2>4, <2>5, <2>6, <2>7, <2>8 DEF IInv
<1> QED BY <1>4, <1>5

\* A top screen that is not the list of places has one below it.
LEMMA NotAlone ==
  ASSUME IInv, TopKind # "PlacesList"
  PROVE  Len(stack) > 1 /\ TopKind \in Opens[made[stack[Len(stack) - 1]].kind]
<1>1. Len(stack) \in Nat \ {0} /\ stack[1] = 1
  BY Depth
<1>2. Len(stack) # 1
  BY <1>1 DEF IInv, KindInv, TopKind, Top
<1>3. /\ Len(stack) - 1 \in 1..(Len(stack) - 1) /\ Len(stack) - 1 + 1 = Len(stack)
  BY <1>1, <1>2
<1>4. TopKind \in Opens[made[stack[Len(stack) - 1]].kind]
  BY <1>3, Covered DEF TopKind, Top
<1>5. Len(stack) > 1
  BY <1>1, <1>2
<1> QED BY <1>4, <1>5

LEMMA CreateRegionStep ==
  ASSUME IInv, CreateRegion
  PROVE  IInv'
<1>1. /\ Touchable /\ TopKind = "CreateRegion" /\ Close(Top)
      /\ UNCHANGED <<made, awaited, jumped, signedIn, auths, forced>>
  BY DEF CreateRegion, account
<1>2. Len(stack) > 1
  BY <1>1, NotAlone
<1>3. /\ awaited' \in [Ids -> 0..MaxPresses] /\ \A s \in Ids : awaited'[s] <= awaited[s]
      /\ auths' \in 0..MaxAuth /\ signedIn' \in BOOLEAN
  BY <1>1, NavigationAssumption DEF IInv, TypeOK, NavigationAssumption
<1> QED BY <1>1, <1>2, <1>3, CloseStep

\* The profile lies on the list of places, so that signing out leaves the
\* list alone on the stack.
LEMMA SignOutStep ==
  ASSUME IInv, SignOut
  PROVE  IInv'
<1>1. /\ Touchable /\ TopKind = "Profile" /\ Close(Top) /\ signedIn' = FALSE
      /\ UNCHANGED <<made, awaited, jumped, auths, forced>>
  BY DEF SignOut
<1>2. Len(stack) > 1 /\ TopKind \in Opens[made[stack[Len(stack) - 1]].kind]
  BY <1>1, NotAlone
<1>3. Len(stack) = 2
  <2> DEFINE k == Len(stack) - 1
  <2>1. Len(stack) \in Nat /\ k \in 1..(Len(stack) - 1)
    BY <1>2, Depth
  <2>2. made[stack[k]].kind \in Kinds
    <3> HIDE DEF k
    <3> QED BY <2>1, Covered
  <2>3. made[stack[k]].kind = "PlacesList"
    <3>1. "Profile" \in UserKinds
      BY DEF UserKinds
    <3> QED BY <1>1, <1>2, <2>2, <3>1, OpensUser
  <2>4. ~(k \in 2..Len(stack))
    <3> SUFFICES ASSUME k \in 2..Len(stack) PROVE FALSE
      OBVIOUS
    <3>1. k - 1 \in 1..(Len(stack) - 1) /\ k - 1 + 1 = k
      BY <2>1
    <3> HIDE DEF k
    <3>2. made[stack[k - 1]].kind \in Kinds /\ made[stack[k]].kind \in Opens[made[stack[k - 1]].kind]
      BY <3>1, Covered
    <3> QED BY <2>3, <3>2, OpensType
  <2>5. ASSUME NEW m \in Nat, m - 1 \in 1..(m - 1), m - 1 \notin 2..m
        PROVE  m = 2
    BY <2>5
  <2>6. Len(stack) \in Nat /\ Len(stack) - 1 \in 1..(Len(stack) - 1) /\ Len(stack) - 1 \notin 2..Len(stack)
    BY <2>1, <2>4
  <2> QED BY <2>5, <2>6
<1>4. /\ awaited' \in [Ids -> 0..MaxPresses] /\ \A s \in Ids : awaited'[s] <= awaited[s]
      /\ auths' \in 0..MaxAuth /\ signedIn' \in BOOLEAN
  <2>1. /\ awaited \in [Ids -> 0..MaxPresses] /\ MaxPresses \in Nat
        /\ auths' \in 0..MaxAuth
    BY <1>1, NavigationAssumption DEF IInv, TypeOK, NavigationAssumption
  <2>2. signedIn' \in BOOLEAN
    BY <1>1
  <2> QED BY <1>1, <2>1, <2>2
<1> QED BY <1>1, <1>2, <1>3, <1>4, CloseStep

LEMMA SaveStep ==
  ASSUME IInv, Save
  PROVE  IInv'
<1>1. /\ Touchable /\ TopKind = "CreatePlace"
      /\ stack' = <<1>> /\ showing' = Top
      /\ closures' = closures \ (Range(stack) \ {1})
      /\ shouldPops' = shouldPops \ (Range(stack) \ {1})
      /\ stored' = stored \ {Top}
      /\ UNCHANGED <<made, awaited, jumped, signedIn, auths, forced>>
  BY DEF Save, PopToRoot, account
<1>2. /\ Len(made) \in Nat \ {0} /\ Top \in 1..Len(made) /\ Len(stack') = 1
      /\ stack'[1] = 1 /\ DOMAIN stack' = {1} /\ Top' = 1 /\ stack' # <<>> /\ Range(stack') = {1}
  BY <1>1, Depth DEF Top, Range
<1>3. TypeOK'
  <2>1. stack' \in Seq(1..Len(made))
    BY <1>1, <1>2
  <2>2. showing' \in 0..Len(made)
    BY <1>1, <1>2
  <2> QED BY <1>1, <1>2, <2>1, <2>2 DEF IInv, TypeOK
<1>4. KindInv'
  BY <1>1 DEF IInv, KindInv
<1>5. StackInv'
  BY <1>2 DEF StackInv, StackIsCoordinated
<1>6. AwaitInv'
  <2> SUFFICES ASSUME NEW s \in Ids, awaited[s] > 0
               PROVE  s \in 1..Len(made) /\ made[s].kind \in Requesting /\ s # 1
    BY <1>1, <1>2 DEF AwaitInv
  <2> QED BY Asking DEF IInv, AwaitInv
<1>7. ClosureInv'
  <2>1. showing \notin closures
    BY <1>1, <1>2 DEF IInv, TypeOK, Touchable
  <2> QED BY <1>1, <1>2, <2>1 DEF IInv, ClosureInv
<1>8. UserScreensSignedIn'
  BY <1>1, <1>2, ListKind DEF IInv, KindInv, UserScreensSignedIn, UserScreenOpen
<1> QED BY <1>3, <1>4, <1>5, <1>6, <1>7, <1>8 DEF IInv

LEMMA BackStep ==
  ASSUME IInv, NEW n \in Ids, Back(n)
  PROVE  IInv'
<1> DEFINE skipped == {stack[i] : i \in (n + 1)..(Len(stack) - 1)}
<1>1. /\ Touchable /\ n \in 1..(Len(stack) - 1)
      /\ stack' = SubSeq(stack, 1, n) /\ showing' = Top /\ jumped' = jumped \cup skipped
      /\ UNCHANGED <<made, closures, shouldPops, stored, awaited, signedIn, auths, forced>>
  BY DEF Back, account
<1>2. /\ stack' \in Seq(1..Len(made)) /\ stack' # <<>> /\ DOMAIN stack' = 1..n
      /\ \A i \in 1..n : stack'[i] = stack[i]
  BY <1>1, Shorter
<1>3. /\ Len(stack) \in Nat \ {0} /\ Top \in 1..Len(made) /\ DOMAIN stack = 1..Len(stack)
      /\ \A i \in 1..Len(stack) : stack[i] \in 1..Len(made)
      /\ \A i \in (n + 1)..(Len(stack) - 1) : i \in 1..Len(stack)
      /\ n \in Nat /\ \A i \in 1..n : i \in 1..Len(stack)
  BY <1>1, Depth
<1>4. /\ awaited' \in [Ids -> 0..MaxPresses] /\ \A s \in Ids : awaited'[s] <= awaited[s]
  BY <1>1, NavigationAssumption DEF IInv, TypeOK, NavigationAssumption
<1>5. KindInv' /\ StackInv' /\ AwaitInv'
  BY <1>1, <1>4, Popped
<1>6. UserScreensSignedIn'
  BY <1>1, PoppedUser
<1>7. TypeOK'
  <2>1. skipped \subseteq 1..Len(made)
    BY <1>3
  <2>2. Top \in 0..Len(made)
    BY <1>3
  <2> HIDE DEF skipped
  <2> QED BY <1>1, <1>2, <2>1, <2>2 DEF IInv, TypeOK
<1>8. ClosureInv'
  <2>1. \A i \in 1..Len(stack) : i \in 1..n \/ i \in (n + 1)..(Len(stack) - 1) \/ i = Len(stack)
    <3>1. ASSUME NEW m \in Nat, NEW i \in 1..m
          PROVE  i \in 1..n \/ i \in (n + 1)..(m - 1) \/ i = m
      BY <1>3
    <3>2. Len(stack) \in Nat
      BY <1>3
    <3> QED BY <3>1, <3>2
  <2>2. Range(stack') = {stack[i] : i \in 1..n}
    BY <1>2 DEF Range
  <2>3. Range(stack) = {stack[i] : i \in 1..Len(stack)} /\ Top = stack[Len(stack)]
    BY <1>3 DEF Range, Top
  <2>4. Range(stack') \subseteq Range(stack)
    BY <1>3, <2>2, <2>3
  <2>5. Range(stack) \subseteq Range(stack') \cup skipped \cup {Top}
    BY <2>1, <2>2, <2>3
  <2>6. showing \notin closures
    BY <1>1 DEF IInv, TypeOK, Touchable
  <2> HIDE DEF skipped
  <2> QED BY <1>1, <2>4, <2>5, <2>6 DEF IInv, ClosureInv
<1> QED BY <1>5, <1>6, <1>7, <1>8 DEF IInv

LEMMA DidShowStep ==
  ASSUME IInv, DidShow
  PROVE  IInv'
<1>1. /\ showing' = 0
      /\ closures' = IF showing \in Range(stack) THEN closures ELSE closures \ {showing}
      /\ UNCHANGED <<made, stack, shouldPops, stored, awaited, jumped, signedIn, auths, forced>>
  BY DEF DidShow, account
<1>2. TypeOK'
  <2>1. 0 \in 0..Len(made)
    BY Depth
  <2> QED BY <1>1, <2>1 DEF IInv, TypeOK
<1>3. KindInv'
  BY <1>1 DEF IInv, KindInv
<1>4. StackInv'
  BY <1>1 DEF IInv, StackInv, StackIsCoordinated
<1>5. AwaitInv'
  BY <1>1 DEF IInv, AwaitInv, Top, Touchable
<1>6. ClosureInv'
  BY <1>1 DEF IInv, ClosureInv
<1>7. UserScreensSignedIn'
  BY <1>1 DEF IInv, UserScreensSignedIn, UserScreenOpen
<1> QED BY <1>2, <1>3, <1>4, <1>5, <1>6, <1>7 DEF IInv

LEMMA RelaunchStep ==
  ASSUME IInv, Relaunch
  PROVE  IInv' /\ Len(made') = 1
<1>1. /\ made' = SubSeq(made, 1, 1) /\ stack' = <<1>> /\ showing' = 0
      /\ closures' = {} /\ shouldPops' = {} /\ stored' = {} /\ jumped' = {}
      /\ awaited' = [s \in Ids |-> 0] /\ auths' = 0 /\ signedIn' = signedIn /\ forced' = 0
  BY DEF Relaunch
<1>2. Len(made) \in Nat \ {0} /\ made[1] \in Screen
  BY Depth
<1>3. made' \in Seq(Screen) /\ Len(made') = 1 /\ made'[1] = made[1]
  <2>1. \A i \in 1..1 : made[i] \in Screen
    BY <1>2
  <2>2. /\ SubSeq(made, 1, 1) \in Seq(Screen)
        /\ Len(SubSeq(made, 1, 1)) = IF 1 <= 1 THEN 1 - 1 + 1 ELSE 0
        /\ \A i \in 1..(1 - 1 + 1) : SubSeq(made, 1, 1)[i] = made[1 + i - 1]
    BY <2>1, SubSeqProperties
  <2> QED BY <1>1, <2>2
<1>4. /\ Len(stack') = 1 /\ stack'[1] = 1 /\ DOMAIN stack' = {1} /\ stack' # <<>> /\ Range(stack') = {1}
      /\ stack' \in Seq(1..1)
  BY <1>1 DEF Range
<1>5. TypeOK'
  <2>1. Len(made') \in Ids
    BY <1>3, NavigationAssumption DEF NavigationAssumption, Ids
  <2>2. awaited' \in [Ids -> 0..MaxPresses] /\ auths' \in 0..MaxAuth
    BY <1>1, NavigationAssumption DEF NavigationAssumption
  <2>3. signedIn' \in BOOLEAN
    BY <1>1 DEF IInv, TypeOK
  <2>4. stack' \in Seq(1..Len(made')) /\ showing' \in 0..Len(made') /\ forced' \in 0..Len(made')
    BY <1>1, <1>3, <1>4
  <2> QED BY <1>1, <1>3, <1>4, <2>1, <2>2, <2>3, <2>4 DEF TypeOK
<1>6. KindInv'
  <2>1. made[1].kind = "PlacesList" /\ made[1].shouldPop = FALSE
    BY <1>2 DEF IInv, KindInv
  <2> QED BY <1>3, <2>1 DEF KindInv
<1>7. StackInv'
  BY <1>4 DEF StackInv, StackIsCoordinated
<1>8. AwaitInv'
  BY <1>1 DEF AwaitInv
<1>9. ClosureInv'
  BY <1>1, <1>4 DEF ClosureInv
<1>10. UserScreensSignedIn'
  BY <1>3, <1>4, ListKind DEF IInv, KindInv, UserScreensSignedIn, UserScreenOpen
<1> QED BY <1>3, <1>5, <1>6, <1>7, <1>8, <1>9, <1>10 DEF IInv

LEMMA NavigationStep == IInv /\ [Next]_vars => IInv'
<1> SUFFICES ASSUME IInv, [Next]_vars PROVE IInv'
  OBVIOUS
<1>1. /\ auths \in 0..MaxAuth /\ MaxAuth \in Nat /\ signedIn \in BOOLEAN
      /\ forced \in 0..Len(made) /\ 0 \in 0..Len(made)
  BY Depth, NavigationAssumption DEF IInv, TypeOK, NavigationAssumption
<1>2. CASE SignUp
  <2>1. auths' \in 0..MaxAuth
    BY <1>1, <1>2 DEF SignUp
  <2> QED BY <1>1, <1>2, <2>1, StillStep DEF SignUp
<1>3. CASE SignUpDone
  <2>1. auths' \in 0..MaxAuth
    BY <1>1, <1>3 DEF SignUpDone
  <2>2. CASE signedIn' = TRUE /\ forced' = 0
    BY <1>1, <1>3, <2>1, <2>2, StillStep DEF SignUpDone
  <2>3. CASE UNCHANGED <<signedIn, forced>>
    BY <1>1, <1>3, <2>1, <2>3, StillStep DEF SignUpDone
  <2> QED BY <1>3, <2>2, <2>3 DEF SignUpDone
<1>5. CASE ForcedSignOut
  <2>1. UserScreenOpen => stack[2] \in 0..Len(made)
    <3> SUFFICES ASSUME NEW i \in DOMAIN stack, made[stack[i]].kind \in UserKinds
                 PROVE  stack[2] \in 0..Len(made)
      BY DEF UserScreenOpen
    <3>1. i # 1
      BY Depth, ListKind DEF IInv, KindInv
    <3>2. 2 \in 1..Len(stack)
      BY <3>1, Depth
    <3> QED BY <3>2, Depth
  <2>2. signedIn' \in BOOLEAN /\ forced' \in 0..Len(made) /\ auths' \in 0..MaxAuth
    BY <1>1, <1>5, <2>1 DEF ForcedSignOut
  <2> QED BY <1>5, <2>2, StillStep DEF ForcedSignOut
<1>4. CASE UNCHANGED vars
  BY <1>1, <1>4, StillStep DEF vars, account
<1> QED BY <1>2, <1>3, <1>4, <1>5, GoToStep, RequestStep, AnswerStep, CreateRegionStep, SignOutStep,
           SaveStep, BackStep, DidShowStep, RelaunchStep DEF Next

\* The inductive invariant holds in every behaviour of the navigation.
LEMMA NavigationInvariant == Spec => []IInv
BY NavigationInit, NavigationStep, PTL DEF Spec

-----------------------------------------------------------------------------

\* The type invariant holds in every behaviour: in particular the stack is
\* never empty, however pops, sign-outs and saves meet.
THEOREM NavigationTyped == Spec => []TypeOK
<1>1. IInv => TypeOK
  BY DEF IInv
<1> QED BY <1>1, NavigationInvariant, PTL

\* Each screen lies on the one whose coordinator opened and stores it, for
\* any number of screens and of unanswered requests.
THEOREM NavigationCoordinated == Spec => []StackIsCoordinated
<1>1. IInv => StackIsCoordinated
  BY DEF IInv, StackInv
<1> QED BY <1>1, NavigationInvariant, PTL

\* Only a sign-out that FirebaseAuth forces leaves a screen about the user
\* without one; SignOut, late sign-ins, saves and the back button never do.
THEOREM NavigationSignedIn == Spec => []UserScreensSignedIn
<1>1. IInv => UserScreensSignedIn
  BY DEF IInv
<1> QED BY <1>1, NavigationInvariant, PTL

\* Router.closures and the stack agree between animations, save for the
\* screens the back menu skipped, and gestureRecognizerShouldBegin is false.
THEOREM NavigationClosures == Spec => []ClosuresMatchStack
<1>1. IInv => ClosuresMatchStack
  <2> SUFFICES ASSUME IInv PROVE ClosuresMatchStack
    OBVIOUS
  <2>1. Touchable => showing \notin closures
    BY Depth DEF IInv, TypeOK, Touchable
  <2>2. made[Top].shouldPop = FALSE
    BY Depth DEF IInv, KindInv
  <2>3. ~ShouldBegin
    BY <2>2 DEF ShouldBegin
  <2> QED BY <2>1, <2>3 DEF IInv, ClosureInv, ClosuresMatchStack
<1> QED BY <1>1, NavigationInvariant, PTL

\* An answer pops the screen that asked, on top and between animations, or
\* nothing: Router.pop never meets another transition.
THEOREM NavigationLateAnswers == Spec => LateAnswersHarmless
<1> DEFINE Harmless(s) == Top = s /\ Touchable /\ stack' = SubSeq(stack, 1, Len(stack) - 1)
<1>1. ASSUME IInv, [Next]_vars, NEW s \in Ids, awaited'[s] < awaited[s], made' = made, stack' # stack
      PROVE  Harmless(s)
  <2>1. awaited \in [Ids -> 0..MaxPresses] /\ MaxPresses \in Nat
    BY <1>1, NavigationAssumption DEF IInv, TypeOK, NavigationAssumption
  <2>2. awaited[s] > 0
    <3>1. awaited' \in [Ids -> 0..MaxPresses]
      BY <1>1, NavigationStep DEF IInv, TypeOK
    <3>2. awaited[s] \in Nat /\ awaited'[s] \in Nat
      BY <2>1, <3>1
    <3> QED BY <1>1, <3>2
  <2>3. awaited' # awaited
    BY <1>1, <2>1
  <2>4. ASSUME NEW t \in Ids, Answer(t)
        PROVE  Harmless(s)
    <3>1. t = s
      <4>1. awaited' = [awaited EXCEPT ![t] = @ - 1]
        BY <2>4 DEF Answer
      <4>2. t # s => awaited'[s] = awaited[s]
        BY <2>1, <4>1
      <4> QED BY <1>1, <2>1, <4>2
    <3>2. Top = s /\ stack' = SubSeq(stack, 1, Len(stack) - 1)
      BY <1>1, <2>4, <3>1 DEF Answer, Close, Pop, router
    <3>3. Touchable
      BY <1>1, <2>2, <3>2, Asking
    <3> QED BY <3>2, <3>3
  <2>5. CASE Request
    <3>1. awaited' = [awaited EXCEPT ![Top] = @ + 1] /\ Top \in Ids
      BY <1>1, <2>5, Depth DEF Request
    <3>2. awaited'[s] = awaited[s] \/ awaited'[s] = awaited[s] + 1
      BY <2>1, <3>1
    <3> QED BY <1>1, <2>1, <3>2
  <2>6. CASE Relaunch
    <3>1. Len(made) = 1
      BY <1>1, <2>6, RelaunchStep
    <3>2. s \in 1..Len(made) /\ s # 1
      BY <1>1, <2>2, Asking DEF IInv, AwaitInv
    <3> QED BY <3>1, <3>2
  <2>7. CASE CreateRegion \/ SignOut \/ Save \/ DidShow \/ SignUp \/ SignUpDone \/ ForcedSignOut
    BY <2>3, <2>7 DEF CreateRegion, SignOut, Save, DidShow, SignUp, SignUpDone, ForcedSignOut
  <2>8. CASE (\E kind \in Kinds : GoTo(kind)) \/ (\E n \in Ids : Back(n)) \/ UNCHANGED vars
    BY <2>3, <2>8 DEF GoTo, Back, vars
  <2> QED BY <1>1, <2>4, <2>5, <2>6, <2>7, <2>8 DEF Next
<1>2. IInv /\ [Next]_vars =>
        [\A s \in Ids : awaited'[s] < awaited[s] /\ made' = made /\ stack' # stack =>
           Top = s /\ Touchable /\ stack' = SubSeq(stack, 1, Len(stack) - 1)]_vars
  BY <1>1
<1> QED BY <1>2, NavigationInvariant, PTL DEF Spec, LateAnswersHarmless

-----------------------------------------------------------------------------
(* The depth of the stack.                                                 *)

\* How far from the list a screen can lie at most.
Level == [
  PlacesList     |-> 1,
  SelectRegion   |-> 2,
  FillAddress    |-> 3,
  EnterStreet    |-> 4,
  SelectBuilding |-> 5,
  SelectGroup    |-> 4,
  CreatePlace    |-> 6,
  PlaceDetails   |-> 2,
  Profile        |-> 2,
  CreateReport   |-> 3,
  ReportsHistory |-> 3,
  ReportDetails  |-> 4,
  CreateRegion   |-> 3]

LEMMA LevelType == \A k \in Kinds : Level[k] \in 1..6
BY DEF Kinds, Opens, Level

\* Every goTo... leads further away from the list.
LEMMA OpensFurther ==
  ASSUME NEW k \in Kinds, NEW kind \in Opens[k]
  PROVE  Level[kind] > Level[k]
BY DEF Kinds, Opens, PlacesListOpens, SelectRegionOpens, FillAddressOpens, EnterStreetOpens,
       SelectBuildingOpens, SelectGroupOpens, ProfileOpens, ReportsHistoryOpens, NothingOpens,
       Level

\* At most six controllers are ever pushed on one another, however often
\* coordinate, close and the back button are used: the ways that the
\* coordinators are wired for lead to no screen twice.
THEOREM NavigationShallow == Spec => [](Len(stack) <= 6)
<1>1. IInv => Len(stack) <= 6
  <2> SUFFICES ASSUME IInv, ~(Len(stack) <= 6) PROVE FALSE
    OBVIOUS
  <2> DEFINE level(i) == Level[made[stack[i]].kind]
  <2>1. Len(stack) \in Nat /\ Len(stack) >= 7
    BY Depth
  <2>2. ASSUME NEW i \in 1..7 PROVE level(i) \in 1..6
    <3>1. i \in 1..Len(stack)
      BY <2>1
    <3>2. made[stack[i]] \in Screen
      BY <3>1, Depth
    <3> QED BY <3>2, LevelType DEF Screen
  <2>3. ASSUME NEW i \in 1..6 PROVE level(i + 1) > level(i)
    <3>1. i \in 1..(Len(stack) - 1)
      BY <2>1
    <3> QED BY <3>1, Covered, OpensFurther
  <2> HIDE DEF level
  <2>4. /\ level(2) > level(1) /\ level(3) > level(2) /\ level(4) > level(3)
        /\ level(5) > level(4) /\ level(6) > level(5) /\ level(7) > level(6)
    BY <2>3
  <2>5. \A i \in {1, 2, 3, 4, 5, 6, 7} : level(i) \in 1..6
    BY <2>2
  <2> QED BY <2>4, <2>5
<1> QED BY <1>1, NavigationInvariant, PTL

=============================================================================
