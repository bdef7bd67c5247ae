-------------------------- MODULE MCDashboard_proofs --------------------------
(***************************************************************************)
(* Proofs about the dashboard that MCDashboard puts together: the panels    *)
(* and the place of their widgets (PanelLayout), how the panels of a        *)
(* browser and those of the server follow each other (DashboardSync), a     *)
(* widget's form (WidgetConfig), and a widget and its port (Widget).        *)
(***************************************************************************)
EXTENDS MCDashboard, SequenceTheorems, FiniteSetTheorems, WellFoundedInduction, TLAPS

(* -------------------------- numbers and sets ---------------------------- *)

\* The natural numbers are well ordered.
LEMMA LeastNumber ==
  ASSUME NEW T \in SUBSET Nat, T # {}
  PROVE  \E x \in T : \A y \in T : x <= y
<1> DEFINE R == {p \in Nat \X Nat : p[1] < p[2]}
<1>1. IsWellFoundedOn(OpToRel(<, Nat), Nat)
  BY NatLessThanWellFounded
<1>2. OpToRel(<, Nat) = R
  BY DEF OpToRel
<1>3. IsWellFoundedOn(R, Nat)
  BY <1>1, <1>2
<1>4. \E x \in T : \A y \in T : ~ (<<y, x>> \in R)
  <2> HIDE DEF R
  <2> QED
    BY <1>3, WFMin
<1>5. PICK x \in T : \A y \in T : ~ (<<y, x>> \in R)
  BY <1>4
<1>6. \A y \in T : y \in Nat /\ x \in Nat /\ ~ (y < x)
  BY <1>5
<1> QED
  BY <1>6

\* What is the greatest of a set's numbers.
Greatest(m, T) == m \in T /\ \A y \in T : y <= m

\* A finite set of numbers has a greatest one: of those without it, one of the smallest has an
\* element less.
LEMMA GreatestNumber ==
  ASSUME NEW T \in SUBSET Nat, IsFiniteSet(T), T # {}
  PROVE  \E m : Greatest(m, T)
<1> DEFINE B == {X \in SUBSET Nat : IsFiniteSet(X) /\ X # {} /\ ~\E m : Greatest(m, X)}
           N == {Cardinality(X) : X \in B}
<1>1. SUFFICES B = {}
  OBVIOUS
<1>2. SUFFICES ASSUME B # {} PROVE FALSE
  OBVIOUS
<1>3. N \in SUBSET Nat /\ N # {}
  BY <1>2, FS_CardinalityType
<1>4. PICK c \in N : \A y \in N : c <= y
  <2> HIDE DEF N
  <2> QED
    BY <1>3, LeastNumber
<1>5. PICK X \in B : Cardinality(X) = c
  BY <1>4
<1>6. PICK x \in X : TRUE
  BY <1>5
<1>7. /\ IsFiniteSet(X \ {x}) /\ Cardinality(X \ {x}) = c - 1 /\ c \in Nat
      /\ X \ {x} \in SUBSET Nat
  BY <1>3, <1>4, <1>5, <1>6, FS_RemoveElement
<1>8. X \ {x} \notin B
  <2>1. ASSUME X \ {x} \in B PROVE c - 1 \in N
    BY <2>1, <1>7
  <2> QED
    <3> HIDE DEF N
    <3> QED
      BY <2>1, <1>4, <1>7
<1>9. CASE X \ {x} = {}
  <2>1. Greatest(x, X)
    BY <1>9, <1>5, <1>6 DEF Greatest
  <2> QED
    BY <2>1, <1>5
<1>10. CASE X \ {x} # {}
  <2>1. PICK m : Greatest(m, X \ {x})
    BY <1>7, <1>8, <1>10
  <2>2. x \in Nat /\ m \in Nat
    BY <2>1, <1>5, <1>6 DEF Greatest
  <2>3. Greatest(IF m <= x THEN x ELSE m, X)
    BY <2>1, <2>2, <1>5, <1>6 DEF Greatest
  <2> QED
    BY <2>3, <1>5
<1> QED
  BY <1>9, <1>10

\* What Max takes of a finite set of numbers.
LEMMA MaxFacts ==
  ASSUME NEW T \in SUBSET Nat, IsFiniteSet(T), T # {}
  PROVE  Max(T) \in T /\ \A y \in T : y <= Max(T)
<1>1. PICK m : Greatest(m, T)
  BY GreatestNumber
<1>2. m \in T /\ \A y \in T : m >= y
  BY <1>1 DEF Greatest
<1>3. Max(T) \in T /\ \A y \in T : Max(T) >= y
  BY <1>2 DEF Max
<1> QED
  BY <1>3

\* What Min takes of a set of numbers.
LEMMA MinFacts ==
  ASSUME NEW T \in SUBSET Nat, T # {}
  PROVE  Min(T) \in T
<1>1. PICK m \in T : \A y \in T : m <= y
  BY LeastNumber
<1> QED
  BY <1>1 DEF Min

(* ---------------- panels and the place of their widgets ------------------ *)

\* A widget as it is at rest or under the pointer, and the options of a panel.
WidgetType ==
    [id : Nat, left : Nat, top : Nat, width : Nat \ {0}, height : Nat \ {0}, buttons : Nat,
     vertical : BOOLEAN]
OptionsType == [width : Nat \ {0}, height : Nat \ {0}, minw : Nat \ {0}, minh : Nat \ {0}]

\* What each variable holds; of the options only those of the panel shown are known to be there.
ContentTypes ==
    /\ parent \in [Panel -> Group \cup {None}] /\ name \in [Panel -> Name]
    /\ width \in [Panel -> Nat \ {0}] /\ height \in [Panel -> Nat \ {0}]
    /\ saved \in [Panel -> SUBSET WidgetType] /\ live \in [Panel -> SUBSET WidgetType]
    /\ \A p \in Panel : IsFiniteSet(saved[p]) /\ IsFiniteSet(live[p])
    /\ loaded \in [Panel -> BOOLEAN]
    /\ DOMAIN options = Panel
    /\ \A p \in Panel : options[p] = None \/ options[p] \in OptionsType
ModeTypes ==
    /\ cur \in Panel \cup {None} /\ edit \in BOOLEAN /\ selected \in Nat
    /\ drag \in {"none", "begun", "changed"} /\ made \in Nat /\ changed \in Nat
    /\ moves \subseteq [told : Panel, to : Panel, old : Nat]

\* Only the panel shown has its widgets made, and it has its options form.
OneShown ==
    /\ \A p \in Panel : loaded[p] <=> p = cur
    /\ cur # None => options[cur] \in OptionsType
    /\ drag # "none" => cur # None

Placed(ws, w, h) ==
    \A r \in ws : ~Radio(r) => Within(r, w, h) /\ \A o \in ws \ {r} : ~Radio(o) => ~Overlap(r, o)

\* The widgets of a panel, made or not, have their place, and those shown are those saved
\* until they are dragged; the limits of the options form keep the place of all.
PlacesKept ==
    /\ \A p \in Panel : Placed(Widgets(p), width[p], height[p])
    /\ \A p \in Panel : ~loaded[p] => live[p] = {}
    /\ cur # None /\ drag # "changed" =>
          /\ live[cur] = saved[cur]
          /\ \A w \in live[cur] : ~Radio(w) => Within(w, options[cur].minw, options[cur].minh)

\* A widget has one number, of those given; no other panel has it, nor does any that it left.
Numbers ==
    /\ \A p \in Panel : \A w \in saved[p] : w.id \in 1..made
    /\ \A p \in Panel : \A w, o \in Widgets(p) : w.id = o.id => w = o
    /\ cur # None => \A w \in live[cur] : \E o \in saved[cur] : o.id = w.id
    /\ \A m \in moves : m.old \in 1..made
    /\ OnePlaceEach

LayoutInv == ContentTypes /\ ModeTypes /\ OneShown /\ PlacesKept /\ Numbers

-----------------------------------------------------------------------------
(* The cells *)

\* The larger of two numbers.
LEMMA Max2Facts ==
  ASSUME NEW a \in Nat, NEW b \in Nat
  PROVE  Max2(a, b) \in Nat /\ a <= Max2(a, b) /\ b <= Max2(a, b) /\ Max2(a, b) \in {a, b}
BY DEF Max2

\* No widget reaches below the bottom of all or beyond their right side (findWidgetPlace()).
LEMMA Extent ==
  ASSUME NEW ws \in SUBSET WidgetType, IsFiniteSet(ws)
  PROVE  /\ Bottom(ws) \in Nat /\ \A o \in ws : o.top + o.height <= Bottom(ws)
         /\ Right(ws) \in Nat /\ \A o \in ws : o.left + o.width <= Right(ws)
<1>1. \A o \in ws : o.top + o.height \in Nat /\ o.left + o.width \in Nat
  BY DEF WidgetType
<1> DEFINE f == [o \in ws |-> o.top + o.height]
           g == [o \in ws |-> o.left + o.width]
           F == {o.top + o.height : o \in ws}
           G == {o.left + o.width : o \in ws}
<1>2. f \in Surjection(ws, F) /\ g \in Surjection(ws, G)
  BY DEF Surjection
<1>3. IsFiniteSet(F) /\ IsFiniteSet(G)
  BY <1>2, FS_Surjection
<1>4. {0} \cup F \in SUBSET Nat /\ {0} \cup G \in SUBSET Nat
  BY <1>1
<1>5. IsFiniteSet({0} \cup F) /\ IsFiniteSet({0} \cup G)
  <2> HIDE DEF F, G
  <2>1. {0} \cup F = F \cup {0} /\ {0} \cup G = G \cup {0}
    OBVIOUS
  <2> QED
    BY <1>3, <2>1, FS_AddElement
<1>6. /\ Max({0} \cup F) \in {0} \cup F /\ \A y \in {0} \cup F : y <= Max({0} \cup F)
      /\ Max({0} \cup G) \in {0} \cup G /\ \A y \in {0} \cup G : y <= Max({0} \cup G)
  <2> HIDE DEF F, G
  <2> QED
    BY <1>4, <1>5, MaxFacts
<1>7. Bottom(ws) = Max({0} \cup F) /\ Right(ws) = Max({0} \cup G)
  BY DEF Bottom, Right
<1> QED
  <2>1. Bottom(ws) \in Nat /\ Right(ws) \in Nat
    <3> HIDE DEF F, G
    <3> QED
      BY <1>4, <1>6, <1>7
  <2>2. \A o \in ws : o.top + o.height \in {0} \cup F /\ o.left + o.width \in {0} \cup G
    OBVIOUS
  <2> QED
    <3> HIDE DEF F, G
    <3> QED
      BY <1>6, <1>7, <2>1, <2>2

\* Options limited by widgets take no panel smaller than what they need (updateSizeLimits()).
LEMMA LimitedFacts ==
  ASSUME NEW ws \in SUBSET WidgetType, IsFiniteSet(ws), NEW o \in OptionsType
  PROVE  /\ Limited(o, ws) \in OptionsType
         /\ \A r \in ws : Within(r, Limited(o, ws).minw, Limited(o, ws).minh)
<1>0. Right(ws) \in Nat /\ Bottom(ws) \in Nat
  BY Extent
<1>1. Max2(1, Right(ws)) \in Nat \ {0} /\ Max2(1, Bottom(ws)) \in Nat \ {0}
  BY <1>0 DEF Max2
<1>2. Right(ws) <= Max2(1, Right(ws)) /\ Bottom(ws) <= Max2(1, Bottom(ws))
  BY <1>0 DEF Max2
<1>3. /\ Limited(o, ws) \in OptionsType
      /\ Limited(o, ws).minw = Max2(1, Right(ws)) /\ Limited(o, ws).minh = Max2(1, Bottom(ws))
  BY <1>1 DEF Limited, OptionsType
<1>4. ASSUME NEW r \in ws
      PROVE  Within(r, Limited(o, ws).minw, Limited(o, ws).minh)
  <2>1. r.left \in Nat /\ r.top \in Nat /\ r.width \in Nat /\ r.height \in Nat
    BY DEF WidgetType
  <2>2. r.left + r.width <= Right(ws) /\ r.top + r.height <= Bottom(ws)
    BY Extent
  <2>3. Right(ws) \in Nat /\ Bottom(ws) \in Nat
    BY Extent
  <2> QED
    BY <1>1, <1>2, <1>3, <2>1, <2>2, <2>3 DEF Within
<1> QED
  BY <1>3, <1>4

\* The place found for a widget is free, in a panel that is no smaller (findWidgetPlace()).
LEMMA PlaceFacts ==
  ASSUME NEW p, width[p] \in Nat \ {0}, height[p] \in Nat \ {0},
         NEW w \in Nat \ {0}, NEW h \in Nat \ {0},
         NEW ws \in SUBSET WidgetType, IsFiniteSet(ws)
  PROVE  LET place == Place(p, w, h, ws) IN
         /\ place.left \in Nat /\ place.top \in Nat
         /\ place.w \in Nat \ {0} /\ place.h \in Nat \ {0}
         /\ width[p] <= place.w /\ height[p] <= place.h
         /\ Fits(At(place.left, place.top, w, h), place.w, place.h, ws)
<1> DEFINE wide == Max2(width[p], w)
           fits(x, y) == Fits(At(x, y, w, h), wide, height[p], ws)
           free == {y \in 0..height[p] - 1 : \E x \in 0..wide - 1 : fits(x, y)}
           row == Min(free)
           cols == {x \in 0..wide - 1 : fits(x, row)}
           place == Place(p, w, h, ws)
<1>1. wide \in Nat \ {0} /\ width[p] <= wide /\ w <= wide
  BY Max2Facts
<1>2. CASE free # {}
  <2>1. place = [left |-> Min(cols), top |-> row, w |-> wide, h |-> height[p]]
    BY <1>2 DEF Place
  <2>2. free \in SUBSET Nat /\ cols \in SUBSET Nat
    BY <1>1
  <2>3. row \in free
    <3> HIDE DEF free
    <3> QED
      BY <1>2, <2>2, MinFacts
  <2>4. cols # {}
    <3> HIDE DEF row, fits
    <3> QED
      BY <2>3
  <2>5. Min(cols) \in cols
    <3> HIDE DEF cols
    <3> QED
      BY <2>2, <2>4, MinFacts
  <2>6. fits(Min(cols), row) /\ Min(cols) \in Nat /\ row \in Nat
    <3> HIDE DEF row, fits, wide
    <3> QED
      BY <2>2, <2>3, <2>5
  <2> QED
    <3> HIDE DEF free, cols, row, wide
    <3> QED
      BY <1>1, <2>1, <2>6
<1>3. CASE free = {}
  <2> DEFINE low == Bottom(ws)
             tall == Max2(height[p], low + h)
  <2>1. place = [left |-> 0, top |-> low, w |-> wide, h |-> tall]
    BY <1>3 DEF Place
  <2>2. low \in Nat /\ \A o \in ws : o.top + o.height <= low
    BY Extent
  <2>3. tall \in Nat \ {0} /\ height[p] <= tall /\ low + h <= tall
    <3> HIDE DEF low
    <3> QED
      BY <2>2 DEF Max2
  <2> HIDE DEF low, tall, wide
  <2>4. Within(At(0, low, w, h), wide, tall)
    BY <1>1, <2>2, <2>3 DEF Within, At
  <2>5. ASSUME NEW o \in ws PROVE ~Overlap(At(0, low, w, h), o)
    <3>1. o.top \in Nat /\ o.height \in Nat /\ o.top + o.height <= low
      BY <2>2 DEF WidgetType
    <3> QED
      BY <3>1, <2>2 DEF Overlap, At
  <2>6. Fits(At(0, low, w, h), wide, tall, ws)
    BY <2>4, <2>5 DEF Fits
  <2> QED
    BY <1>1, <2>1, <2>2, <2>3, <2>6
<1> QED
  BY <1>2, <1>3

\* A larger panel leaves the widgets their place.
LEMMA LargerPanel ==
  ASSUME NEW ws \in SUBSET WidgetType, NEW w1 \in Nat, NEW h1 \in Nat, NEW w2 \in Nat, NEW h2 \in Nat,
         w1 <= w2, h1 <= h2, Placed(ws, w1, h1)
  PROVE  Placed(ws, w2, h2)
<1>1. ASSUME NEW r \in ws, Within(r, w1, h1) PROVE Within(r, w2, h2)
  <2>1. r.left \in Nat /\ r.top \in Nat /\ r.width \in Nat /\ r.height \in Nat
    BY DEF WidgetType
  <2> QED
    BY <1>1, <2>1 DEF Within
<1> QED
  BY <1>1 DEF Placed

\* Fewer widgets keep their place.
LEMMA FewerWidgets ==
  ASSUME NEW ws, NEW some \in SUBSET ws, NEW w1, NEW h1, Placed(ws, w1, h1)
  PROVE  Placed(some, w1, h1)
BY DEF Placed

\* A widget that fits among the others, or radio buttons, may come to them.
LEMMA AnotherPlaced ==
  ASSUME NEW ws \in SUBSET WidgetType, NEW r \in WidgetType, NEW w1, NEW h1, Placed(ws, w1, h1),
         ~Radio(r) => Fits(r, w1, h1, ws)
  PROVE  Placed(ws \cup {r}, w1, h1)
<1>1. ASSUME NEW o \in ws, Overlap(o, r) PROVE Overlap(r, o)
  BY <1>1 DEF Overlap
<1> QED
  BY <1>1 DEF Placed, Fits

(* ---------------------- the widgets that are made ------------------------ *)

\* What is made of a kind of widget, or of another widget, is a widget with the next number
\* at the place that was found for it; it takes the size of that place unless its size follows
\* from its configuration.
LEMMA NewFacts ==
  ASSUME made \in Nat, NEW shape \in Shape, NEW place, place.left \in Nat, place.top \in Nat
  PROVE  /\ New(shape, place) \in WidgetType /\ New(shape, place).id = made + 1
         /\ ClassSize(shape)[1] \in Nat \ {0} /\ ClassSize(shape)[2] \in Nat \ {0}
         /\ \A w, h, others : Fits(At(place.left, place.top, ClassSize(shape)[1],
                                      ClassSize(shape)[2]), w, h, others)
                              => Fits(New(shape, place), w, h, others)
<1>1. ClassSize(shape)[1] \in Nat \ {0} /\ ClassSize(shape)[2] \in Nat \ {0}
  BY DEF ClassSize
<1>2. New(shape, place) \in WidgetType /\ New(shape, place).id = made + 1
  BY <1>1 DEF New, WidgetType
<1>3. /\ New(shape, place).left = place.left /\ New(shape, place).top = place.top
      /\ New(shape, place).width = ClassSize(shape)[1]
      /\ New(shape, place).height = ClassSize(shape)[2]
  BY DEF New
<1> QED
  BY <1>1, <1>2, <1>3 DEF Fits, Within, Overlap, At

LEMMA CopyFacts ==
  ASSUME made \in Nat, NEW r \in WidgetType, NEW place, place.left \in Nat, place.top \in Nat
  PROVE  /\ Copy(r, place) \in WidgetType /\ Copy(r, place).id = made + 1
         /\ SizeToPlace(r)[1] \in Nat \ {0} /\ SizeToPlace(r)[2] \in Nat \ {0}
         /\ Radio(Copy(r, place)) <=> Radio(r)
         /\ ~Radio(r) => \A w, h, others :
               Fits(At(place.left, place.top, SizeToPlace(r)[1], SizeToPlace(r)[2]), w, h, others)
               => Fits(Copy(r, place), w, h, others)
<1> DEFINE plain == [r EXCEPT !.id = made + 1, !.left = place.left, !.top = place.top]
<1>1. /\ plain \in WidgetType /\ plain.id = made + 1 /\ plain.buttons = r.buttons
      /\ plain.left = place.left /\ plain.top = place.top
      /\ plain.width = r.width /\ plain.height = r.height
  <2> DEFINE one == [r EXCEPT !.id = made + 1]
             two == [one EXCEPT !.left = place.left]
             three == [two EXCEPT !.top = place.top]
  <2>1. /\ one \in WidgetType /\ one.id = made + 1 /\ one.buttons = r.buttons
        /\ one.width = r.width /\ one.height = r.height
    BY DEF WidgetType
  <2> HIDE DEF one
  <2>2. /\ two \in WidgetType /\ two.id = made + 1 /\ two.buttons = r.buttons
        /\ two.left = place.left /\ two.width = r.width /\ two.height = r.height
    BY <2>1 DEF WidgetType
  <2> HIDE DEF two
  <2>3. /\ three \in WidgetType /\ three.id = made + 1 /\ three.buttons = r.buttons
        /\ three.left = place.left /\ three.top = place.top
        /\ three.width = r.width /\ three.height = r.height
    BY <2>2 DEF WidgetType
  <2>4. plain = three
    BY DEF one, two
  <2> QED
    <3> HIDE DEF plain, three
    <3> QED
      BY <2>3, <2>4
<1>2. SizeToPlace(r)[1] \in Nat \ {0} /\ SizeToPlace(r)[2] \in Nat \ {0}
  BY DEF SizeToPlace, ClassSize, WidgetType
<1>3. CASE Radio(r)
  <2>1. r.buttons \in Nat \ {0} /\ plain.vertical \in BOOLEAN
    BY <1>3, <1>1 DEF Radio, WidgetType
  <2>2. /\ RadioSize(plain.buttons, plain.vertical)[1] \in Nat \ {0}
        /\ RadioSize(plain.buttons, plain.vertical)[2] \in Nat \ {0}
    BY <2>1, <1>1 DEF RadioSize
  <2> HIDE DEF plain
  <2>3. Restored(plain) \in WidgetType /\ Restored(plain).id = plain.id
        /\ Restored(plain).buttons = plain.buttons
    BY <1>1, <2>2 DEF Restored, WidgetType
  <2> QED
    BY <1>1, <1>2, <1>3, <2>3 DEF Copy, Radio, plain
<1>4. CASE ~Radio(r)
  <2>1. ~Radio(plain)
    <3> HIDE DEF plain
    <3> QED
      BY <1>1, <1>4 DEF Radio
  <2>2. Copy(r, place) = plain
    BY <2>1 DEF Copy, Restored
  <2>3. SizeToPlace(r)[1] = r.width /\ SizeToPlace(r)[2] = r.height
    BY <1>4 DEF SizeToPlace
  <2> HIDE DEF plain
  <2>4. ASSUME NEW w, NEW h, NEW others,
               Fits(At(place.left, place.top, SizeToPlace(r)[1], SizeToPlace(r)[2]), w, h, others)
        PROVE  Fits(plain, w, h, others)
    BY <2>3, <2>4, <1>1 DEF Fits, Within, Overlap, At
  <2> QED
    BY <1>1, <1>2, <1>4, <2>1, <2>2, <2>4
<1> QED
  BY <1>3, <1>4

\* What the steps rely on of the constants: None is no panel, and there are names and sizes.
LEMMA Constants ==
  /\ None \notin Panel /\ AnyName \in Name
  /\ NewSize \in Nat \ {0} /\ MaxSize \in Nat \ {0} /\ MaxButtons \in Nat \ {0}
BY LayoutAssumption DEF AnyName

\* The invariant names what the state has.
LEMMA LayoutInit == Init => LayoutInv
<1> SUFFICES ASSUME Init PROVE LayoutInv
  OBVIOUS
<1>1. ContentTypes
  BY Constants, FS_EmptySet DEF Init, ContentTypes
<1>2. ModeTypes
  BY DEF Init, ModeTypes
<1>3. OneShown
  BY Constants DEF Init, OneShown
<1>4. PlacesKept
  BY DEF Init, PlacesKept, Placed, Widgets
<1>5. Numbers
  BY DEF Init, Numbers, Widgets, OnePlaceEach
<1> QED
  BY <1>1, <1>2, <1>3, <1>4, <1>5 DEF LayoutInv

-----------------------------------------------------------------------------
(* The steps *)

LEMMA AddPanelStep ==
  ASSUME LayoutInv, NEW p \in Panel, NEW g \in Group, NEW n \in Name, AddPanel(p, g, n)
  PROVE  LayoutInv'
<1> USE Constants DEF LayoutInv, tree, content, mode
<1>0. [width |-> NewSize, height |-> NewSize, minw |-> 1, minh |-> 1] \in OptionsType
  BY DEF OptionsType
<1>1. ContentTypes'
  BY <1>0, FS_EmptySet DEF ContentTypes, AddPanel
<1>2. ModeTypes'
  BY DEF ModeTypes, AddPanel
<1>3. OneShown'
  BY <1>0 DEF ContentTypes, OneShown, AddPanel
<1>4. PlacesKept'
  BY DEF ContentTypes, PlacesKept, Placed, Widgets, AddPanel, OneShown
<1>5. Numbers'
  BY DEF ContentTypes, Numbers, Widgets, OnePlaceEach, AddPanel
<1> QED
  BY <1>1, <1>2, <1>3, <1>4, <1>5

LEMMA ShowStep ==
  ASSUME LayoutInv, NEW p \in Panel, Show(p)
  PROVE  LayoutInv'
<1> USE Constants DEF LayoutInv, tree, content, mode
<1> DEFINE o == IF options[p] = None THEN NewOptions(p) ELSE options[p]
<1>0. /\ Widgets(p) \in SUBSET WidgetType /\ IsFiniteSet(Widgets(p)) /\ o \in OptionsType
      /\ ~loaded[p] /\ Widgets(p) = saved[p]
  BY DEF ContentTypes, Widgets, OptionsType, NewOptions, OneShown, Show
<1> HIDE DEF o
<1>a. /\ Limited(o, Widgets(p)) \in OptionsType
      /\ \A r \in Widgets(p) : Within(r, Limited(o, Widgets(p)).minw, Limited(o, Widgets(p)).minh)
  BY <1>0, LimitedFacts
<1>b. options' = [options EXCEPT ![p] = Limited(o, Widgets(p))]
  BY DEF Show, o
<1>1. ContentTypes'
  BY <1>0, <1>a, <1>b DEF ContentTypes, Show
<1>2. ModeTypes'
  BY DEF ModeTypes, Show
<1>3. OneShown'
  BY <1>a, <1>b DEF ContentTypes, OneShown, Show, ModeTypes
<1>4. PlacesKept'
  BY <1>0, <1>a, <1>b DEF ContentTypes, PlacesKept, Widgets, Show, OneShown
<1>5. Numbers'
  BY <1>0 DEF ContentTypes, Numbers, Widgets, OnePlaceEach, Show
<1> QED
  BY <1>1, <1>2, <1>3, <1>4, <1>5

LEMMA CloseStep ==
  ASSUME LayoutInv, ClosePanel
  PROVE  LayoutInv'
<1> USE Constants DEF LayoutInv, tree, content, mode
<1>1. ContentTypes'
  BY FS_EmptySet DEF ContentTypes, ClosePanel, ModeTypes
<1>2. ModeTypes'
  BY DEF ModeTypes, ClosePanel
<1>3. OneShown'
  BY DEF ContentTypes, OneShown, ClosePanel, ModeTypes
<1>4. PlacesKept'
  BY DEF ContentTypes, PlacesKept, Widgets, ClosePanel, OneShown, ModeTypes
<1>5. Numbers'
  BY DEF ContentTypes, Numbers, Widgets, OnePlaceEach, ClosePanel, PlacesKept, OneShown, ModeTypes
<1> QED
  BY <1>1, <1>2, <1>3, <1>4, <1>5

LEMMA RemovePanelStep ==
  ASSUME LayoutInv, RemovePanel
  PROVE  LayoutInv'
<1> USE Constants DEF LayoutInv, tree, content, mode
<1>1. ContentTypes'
  BY FS_EmptySet DEF ContentTypes, RemovePanel, ModeTypes
<1>2. ModeTypes'
  BY DEF ModeTypes, RemovePanel
<1>3. OneShown'
  BY DEF ContentTypes, OneShown, RemovePanel, ModeTypes
<1>4. PlacesKept'
  BY DEF ContentTypes, PlacesKept, Widgets, Placed, RemovePanel, OneShown, ModeTypes
<1>5. Numbers'
  BY DEF ContentTypes, Numbers, Widgets, OnePlaceEach, RemovePanel, PlacesKept, OneShown, ModeTypes
<1> QED
  BY <1>1, <1>2, <1>3, <1>4, <1>5

LEMMA OptionsStep ==
  ASSUME LayoutInv, NEW n \in Name, NEW w \in 1..MaxSize, NEW h \in 1..MaxSize, Options(n, w, h)
  PROVE  LayoutInv'
<1> USE Constants DEF LayoutInv, tree, content, mode
<1>0. cur \in Panel /\ options[cur] \in OptionsType /\ live[cur] = saved[cur] /\ loaded[cur]
  BY DEF Options, ModeTypes, OneShown, PlacesKept
<1>a. /\ w \in Nat \ {0} /\ h \in Nat \ {0} /\ options[cur].minw <= w /\ options[cur].minh <= h
  BY <1>0 DEF Options, OptionsType
<1>b. /\ options'[cur] \in OptionsType /\ options'[cur].minw = options[cur].minw
      /\ options'[cur].minh = options[cur].minh /\ \A q \in Panel \ {cur} : options'[q] = options[q]
      /\ DOMAIN options' = Panel
  BY <1>0, <1>a DEF ContentTypes, Options, OptionsType
<1>c. Placed(live[cur], w, h)
  <2>1. Placed(live[cur], width[cur], height[cur])
    BY <1>0 DEF PlacesKept, Widgets
  <2>2. \A r \in live[cur] : ~Radio(r) => Within(r, options[cur].minw, options[cur].minh)
    BY <1>0 DEF PlacesKept, Options
  <2>3. \A r \in live[cur] : ~Radio(r) => Within(r, w, h)
    <3> TAKE r \in live[cur]
    <3>1. r.left \in Nat /\ r.top \in Nat /\ r.width \in Nat /\ r.height \in Nat
      BY <1>0 DEF WidgetType, ContentTypes
    <3> QED
      BY <1>0, <1>a, <2>2, <3>1 DEF Within, OptionsType
  <2> QED
    BY <2>1, <2>3 DEF Placed
<1>1. ContentTypes'
  BY <1>0, <1>a, <1>b DEF ContentTypes, Options
<1>2. ModeTypes'
  BY DEF ModeTypes, Options
<1>3. OneShown'
  BY <1>0, <1>b DEF ContentTypes, OneShown, Options
<1>4. PlacesKept'
  BY <1>0, <1>b, <1>c DEF ContentTypes, PlacesKept, Widgets, Options
<1>5. Numbers'
  BY <1>0 DEF ContentTypes, Numbers, Widgets, OnePlaceEach, Options
<1> QED
  BY <1>1, <1>2, <1>3, <1>4, <1>5

\* A widget that comes to the panel shown, where it fits if it is none of radio buttons
\* (addWidget(), attachWidget()).
LEMMA PutStep ==
  ASSUME LayoutInv, cur # None, drag = "none",
         NEW r \in WidgetType, r.id = made + 1, NEW place,
         place.w \in Nat \ {0}, place.h \in Nat \ {0},
         width[cur] <= place.w, height[cur] <= place.h,
         ~Radio(r) => Fits(r, place.w, place.h, live[cur]),
         Put(cur, place, r, live[cur]), saved' = [saved EXCEPT ![cur] = live'[cur]],
         edit' \in BOOLEAN, UNCHANGED <<tree, cur, drag, changed, moves>>
  PROVE  LayoutInv'
<1> USE Constants DEF LayoutInv, tree
<1> DEFINE ws == live[cur] \cup {r}
<1>0. /\ cur \in Panel /\ options[cur] \in OptionsType /\ live[cur] = saved[cur] /\ loaded[cur]
      /\ ws \in SUBSET WidgetType /\ IsFiniteSet(ws) /\ made \in Nat
  <2>1. /\ cur \in Panel /\ options[cur] \in OptionsType /\ live[cur] = saved[cur] /\ loaded[cur]
        /\ live[cur] \in SUBSET WidgetType /\ IsFiniteSet(live[cur]) /\ made \in Nat
    BY DEF ModeTypes, OneShown, PlacesKept, ContentTypes
  <2> QED
    BY <2>1, FS_AddElement
<1>a. /\ Limited(options[cur], ws) \in OptionsType
      /\ \A o \in ws : Within(o, Limited(options[cur], ws).minw, Limited(options[cur], ws).minh)
  BY <1>0, LimitedFacts
<1>b. Placed(ws, place.w, place.h)
  <2>1. Placed(live[cur], width[cur], height[cur])
    BY <1>0 DEF PlacesKept, Widgets
  <2>2. Placed(live[cur], place.w, place.h)
    BY <1>0, <2>1, LargerPanel DEF ContentTypes
  <2> QED
    BY <1>0, <2>2, AnotherPlaced
<1>c. /\ live' = [live EXCEPT ![cur] = ws] /\ saved' = [saved EXCEPT ![cur] = ws]
      /\ made' = made + 1 /\ loaded' = [loaded EXCEPT ![cur] = TRUE]
      /\ width' = [width EXCEPT ![cur] = place.w] /\ height' = [height EXCEPT ![cur] = place.h]
      /\ options' = [options EXCEPT ![cur] = Limited(options[cur], ws)]
      /\ selected' = r.id
  BY <1>0 DEF Put, ContentTypes
<1>d. \A p \in Panel : \A o \in saved[p] : o.id \in 1..made /\ o.id # r.id
  BY <1>0 DEF Numbers
<1> HIDE DEF ws
<1>1. ContentTypes'
  BY <1>0, <1>a, <1>c DEF ContentTypes
<1>2. ModeTypes'
  BY <1>0, <1>c DEF ModeTypes
<1>3. OneShown'
  BY <1>0, <1>a, <1>c DEF ContentTypes, OneShown
<1>4. PlacesKept'
  BY <1>0, <1>a, <1>b, <1>c DEF ContentTypes, PlacesKept, Widgets
<1>5. Numbers'
  <2>1. \A o \in ws : o = r \/ o \in saved[cur]
    BY <1>0 DEF ws
  <2>2. \A p \in Panel : \A o \in saved'[p] : (o = r /\ p = cur) \/ o \in saved[p]
    BY <1>0, <1>c, <2>1 DEF ContentTypes
  <2>3. \A p \in Panel : \A o \in saved'[p] : o.id \in 1..made'
    BY <1>0, <1>c, <1>d, <2>2
  <2>4. \A p \in Panel : \A u, v \in Widgets(p)' : u.id = v.id => u = v
    <3>1. \A u, v \in ws : u.id = v.id => u = v
      BY <1>0, <1>d, <2>1 DEF Numbers, Widgets
    <3> QED
      BY <1>0, <1>c, <3>1 DEF Numbers, Widgets, ContentTypes
  <2>5. \A w \in live'[cur'] : \E o \in saved'[cur'] : o.id = w.id
    BY <1>0, <1>c DEF ContentTypes
  <2>6. \A m \in moves' : m.old \in 1..made'
    BY <1>0, <1>c DEF Numbers
  <2>7. OnePlaceEach'
    BY <1>0, <1>c, <1>d, <2>2 DEF Numbers, OnePlaceEach
  <2> QED
    BY <2>3, <2>4, <2>5, <2>6, <2>7 DEF Numbers
<1> QED
  BY <1>1, <1>2, <1>3, <1>4, <1>5

\* What the panel shown has to offer to a widget that comes to it.
LEMMA PlaceShown ==
  ASSUME LayoutInv, cur # None, NEW w \in Nat \ {0}, NEW h \in Nat \ {0}
  PROVE  LET place == Place(cur, w, h, live[cur]) IN
         /\ place.left \in Nat /\ place.top \in Nat
         /\ place.w \in Nat \ {0} /\ place.h \in Nat \ {0}
         /\ width[cur] <= place.w /\ height[cur] <= place.h
         /\ Fits(At(place.left, place.top, w, h), place.w, place.h, live[cur])
<1>1. /\ cur \in Panel /\ width[cur] \in Nat \ {0} /\ height[cur] \in Nat \ {0}
      /\ live[cur] \in SUBSET WidgetType /\ IsFiniteSet(live[cur])
  BY DEF LayoutInv, ModeTypes, ContentTypes
<1> QED
  BY <1>1, PlaceFacts

LEMMA PickStep ==
  ASSUME LayoutInv, NEW shape \in Shape, Pick(shape)
  PROVE  LayoutInv'
<1> DEFINE w == ClassSize(shape)[1]
           h == ClassSize(shape)[2]
           place == Place(cur, w, h, live[cur])
           r == New(shape, place)
<1>0. cur # None /\ drag = "none" /\ made \in Nat /\ w \in Nat \ {0} /\ h \in Nat \ {0}
  BY DEF Pick, LayoutInv, ModeTypes, ClassSize
<1>1. /\ place.left \in Nat /\ place.top \in Nat
      /\ place.w \in Nat \ {0} /\ place.h \in Nat \ {0}
      /\ width[cur] <= place.w /\ height[cur] <= place.h
      /\ Fits(At(place.left, place.top, w, h), place.w, place.h, live[cur])
  BY <1>0, PlaceShown
<1>2. Put(cur, place, r, live[cur]) /\ saved' = [saved EXCEPT ![cur] = live'[cur]] /\ edit' = TRUE
      /\ UNCHANGED <<tree, cur, drag, changed, moves>>
  BY DEF Pick
<1> HIDE DEF place
<1>3. r \in WidgetType /\ r.id = made + 1 /\ Fits(r, place.w, place.h, live[cur])
  BY <1>0, <1>1, NewFacts
<1> HIDE DEF r
<1> QED
  BY <1>0, <1>1, <1>2, <1>3, PutStep

LEMMA DuplicateStep ==
  ASSUME LayoutInv, NEW w \in live[cur], Duplicate(w)
  PROVE  LayoutInv'
<1> DEFINE place == Place(cur, SizeToPlace(w)[1], SizeToPlace(w)[2], live[cur])
           r == Copy(w, place)
<1>0. cur # None /\ drag = "none" /\ made \in Nat /\ w \in WidgetType
  BY Constants DEF Duplicate, CanEdit, LayoutInv, ModeTypes, ContentTypes
<1>a. SizeToPlace(w)[1] \in Nat \ {0} /\ SizeToPlace(w)[2] \in Nat \ {0}
  BY <1>0 DEF SizeToPlace, ClassSize, WidgetType
<1>1. /\ place.left \in Nat /\ place.top \in Nat
      /\ place.w \in Nat \ {0} /\ place.h \in Nat \ {0}
      /\ width[cur] <= place.w /\ height[cur] <= place.h
      /\ Fits(At(place.left, place.top, SizeToPlace(w)[1], SizeToPlace(w)[2]), place.w, place.h,
              live[cur])
  BY <1>0, <1>a, PlaceShown
<1>2. Put(cur, place, r, live[cur]) /\ saved' = [saved EXCEPT ![cur] = live'[cur]]
      /\ UNCHANGED <<tree, cur, edit, drag, changed, moves>>
  BY DEF Duplicate
<1> HIDE DEF place
<1>3. r \in WidgetType /\ r.id = made + 1 /\ (~Radio(r) => Fits(r, place.w, place.h, live[cur]))
  BY <1>0, <1>1, CopyFacts
<1>4. edit' \in BOOLEAN
  BY <1>2 DEF LayoutInv, ModeTypes
<1> HIDE DEF r
<1> QED
  BY <1>0, <1>1, <1>2, <1>3, <1>4, PutStep

LEMMA RemoveStep ==
  ASSUME LayoutInv, NEW w \in live[cur], RemoveWidget(w)
  PROVE  LayoutInv'
<1> USE Constants DEF LayoutInv, tree
<1>0. /\ cur \in Panel /\ options[cur] \in OptionsType /\ live[cur] = saved[cur] /\ loaded[cur]
      /\ Others(w) \in SUBSET WidgetType /\ IsFiniteSet(Others(w)) /\ drag = "none"
      /\ Others(w) \in SUBSET live[cur]
  BY FS_RemoveElement DEF RemoveWidget, CanEdit, Others, ModeTypes, OneShown, PlacesKept,
     ContentTypes
<1> DEFINE o == Limited(options[cur], Others(w))
<1>a. o \in OptionsType /\ \A r \in Others(w) : Within(r, o.minw, o.minh)
  BY <1>0, LimitedFacts
<1>b. options' = [options EXCEPT ![cur] = o]
  BY <1>0 DEF RemoveWidget, ContentTypes
<1>c. Placed(Others(w), width[cur], height[cur])
  <2>1. Placed(live[cur], width[cur], height[cur])
    BY <1>0 DEF PlacesKept, Widgets
  <2> QED
    BY <1>0, <2>1, FewerWidgets
<1> HIDE DEF o
<1>1. ContentTypes'
  BY <1>0, <1>a, <1>b DEF ContentTypes, RemoveWidget
<1>2. ModeTypes'
  BY DEF ModeTypes, RemoveWidget
<1>3. OneShown'
  BY <1>0, <1>a, <1>b DEF ContentTypes, OneShown, RemoveWidget
<1>4. PlacesKept'
  BY <1>0, <1>a, <1>b, <1>c DEF ContentTypes, PlacesKept, Widgets, RemoveWidget
<1>5. Numbers'
  BY <1>0 DEF ContentTypes, Numbers, Widgets, OnePlaceEach, RemoveWidget
<1> QED
  BY <1>1, <1>2, <1>3, <1>4, <1>5

\* The widget that is moved keeps no place in the panel that it leaves, which is not shown any
\* more, and is the newest of the panel that it comes to.
LEMMA MoveStep ==
  ASSUME LayoutInv, NEW w \in live[cur], NEW told \in Panel, NEW p \in Panel, MoveTo(w, told, p)
  PROVE  LayoutInv'
<1> USE Constants DEF LayoutInv, tree
<1> DEFINE ws == Widgets(p)
           place == Place(p, SizeToPlace(w)[1], SizeToPlace(w)[2], ws)
           r == Copy(w, place)
           all == ws \cup {r}
           o == Limited(IF options[p] = None THEN NewOptions(p) ELSE options[p], all)
           o2 == Limited(options[cur], Others(w))
<1>0. /\ cur \in Panel /\ options[cur] \in OptionsType /\ live[cur] = saved[cur] /\ drag = "none"
      /\ p # cur /\ ~loaded[p] /\ ws = saved[p] /\ live[p] = {} /\ w \in WidgetType
      /\ ws \in SUBSET WidgetType /\ IsFiniteSet(ws) /\ made \in Nat
      /\ width[p] \in Nat \ {0} /\ height[p] \in Nat \ {0}
  BY DEF MoveTo, CanEdit, ModeTypes, OneShown, PlacesKept, ContentTypes, Widgets
<1>1. SizeToPlace(w)[1] \in Nat \ {0} /\ SizeToPlace(w)[2] \in Nat \ {0}
  BY <1>0 DEF SizeToPlace, ClassSize, WidgetType
<1>2. /\ place.left \in Nat /\ place.top \in Nat
      /\ place.w \in Nat \ {0} /\ place.h \in Nat \ {0}
      /\ width[p] <= place.w /\ height[p] <= place.h
      /\ Fits(At(place.left, place.top, SizeToPlace(w)[1], SizeToPlace(w)[2]), place.w, place.h, ws)
  <2> HIDE DEF ws
  <2> QED
    BY <1>0, <1>1, PlaceFacts
<1>3. /\ made' = made + 1 /\ cur' = p /\ edit' = TRUE /\ selected' = r.id
      /\ width' = [width EXCEPT ![p] = place.w] /\ height' = [height EXCEPT ![p] = place.h]
      /\ live' = [live EXCEPT ![p] = all, ![cur] = {}]
      /\ loaded' = [loaded EXCEPT ![p] = TRUE, ![cur] = FALSE]
      /\ saved' = [saved EXCEPT ![p] = all, ![cur] = Others(w)]
      /\ moves' = moves \cup {[told |-> told, to |-> p, old |-> w.id]}
      /\ UNCHANGED <<tree, drag, changed>>
  BY DEF MoveTo
<1>4. options' = [options EXCEPT ![p] = o, ![cur] = o2]
  BY <1>0 DEF MoveTo, ContentTypes
<1> HIDE DEF place
<1>5. r \in WidgetType /\ r.id = made + 1 /\ (~Radio(r) => Fits(r, place.w, place.h, ws))
  <2> HIDE DEF ws
  <2> QED
    BY <1>0, <1>2, CopyFacts
<1> HIDE DEF r, ws
<1>6. all \in SUBSET WidgetType /\ IsFiniteSet(all)
  BY <1>0, <1>5, FS_AddElement
<1>7. /\ Others(w) \in SUBSET WidgetType /\ IsFiniteSet(Others(w))
      /\ Others(w) \in SUBSET saved[cur] /\ w \notin Others(w)
  BY <1>0, FS_RemoveElement DEF Others, ContentTypes
<1>8. o \in OptionsType /\ \A u \in all : Within(u, o.minw, o.minh)
  <2>1. (IF options[p] = None THEN NewOptions(p) ELSE options[p]) \in OptionsType
    BY <1>0 DEF ContentTypes, NewOptions, OptionsType
  <2> HIDE DEF all
  <2> QED
    BY <1>6, <2>1, LimitedFacts
<1>9. o2 \in OptionsType
  BY <1>0, <1>7, LimitedFacts
<1>10. Placed(all, place.w, place.h) /\ Placed(Others(w), width[cur], height[cur])
  <2>1. Placed(ws, width[p], height[p]) /\ Placed(saved[cur], width[cur], height[cur])
    BY <1>0 DEF PlacesKept, Widgets, ws, OneShown
  <2>2. Placed(ws, place.w, place.h)
    BY <1>0, <1>2, <2>1, LargerPanel
  <2>3. Placed(all, place.w, place.h)
    BY <1>0, <1>5, <2>2, AnotherPlaced
  <2> QED
    BY <1>7, <2>1, <2>3, FewerWidgets
<1>11. \A u \in all : u = r \/ u \in saved[p]
  BY <1>0
<1> HIDE DEF o, o2, all
<1>12. ContentTypes'
  BY <1>0, <1>2, <1>3, <1>4, <1>6, <1>7, <1>8, <1>9 DEF ContentTypes
<1>13. ModeTypes'
  <2>1. [told |-> told, to |-> p, old |-> w.id] \in [told : Panel, to : Panel, old : Nat]
    BY <1>0 DEF WidgetType
  <2>2. r.id \in Nat
    BY <1>5 DEF WidgetType
  <2> QED
    BY <1>0, <1>3, <2>1, <2>2 DEF ModeTypes
<1>14. OneShown'
  BY <1>0, <1>3, <1>4, <1>8 DEF ContentTypes, OneShown
<1>15. PlacesKept'
  <2>1. \A q \in Panel : Placed(Widgets(q), width[q], height[q])'
    BY <1>0, <1>3, <1>10 DEF ContentTypes, PlacesKept, Widgets
  <2>2. \A q \in Panel : ~loaded'[q] => live'[q] = {}
    BY <1>0, <1>3 DEF ContentTypes, PlacesKept
  <2>3. live'[cur'] = saved'[cur']
    BY <1>0, <1>3 DEF ContentTypes
  <2>4. \A u \in live'[cur'] : Within(u, options'[cur'].minw, options'[cur'].minh)
    BY <1>0, <1>3, <1>4, <1>8 DEF ContentTypes
  <2> QED
    BY <2>1, <2>2, <2>3, <2>4 DEF PlacesKept
<1>16. Numbers'
  <2>1. \A q \in Panel : \A u \in saved[q] : u.id \in 1..made /\ u.id # r.id
    BY <1>0, <1>5 DEF Numbers
  <2>2. /\ \A q \in Panel : \A u \in saved'[q] :
              (u = r /\ q = p) \/ (u \in saved[q] /\ (q = cur => u \in Others(w)))
        /\ live'[p] = all /\ saved'[p] = all /\ cur' = p
    <3>1. \A q \in Panel : saved'[q] = IF q = p THEN all ELSE IF q = cur THEN Others(w) ELSE saved[q]
      BY <1>0, <1>3 DEF ContentTypes
    <3>2. live'[p] = all /\ cur' = p
      BY <1>0, <1>3 DEF ContentTypes
    <3> QED
      BY <1>0, <1>7, <1>11, <3>1, <3>2
  <2>3. \A q \in Panel : \A u \in saved'[q] : u.id \in 1..made'
    BY <1>0, <1>3, <1>5, <2>1, <2>2
  <2>4. \A q \in Panel : \A u, v \in Widgets(q)' : u.id = v.id => u = v
    <3>1. \A u, v \in all : u.id = v.id => u = v
      BY <1>0, <1>11, <2>1 DEF Numbers, Widgets
    <3>2. \A u, v \in saved[cur] : u.id = v.id => u = v
      BY <1>0 DEF Numbers, Widgets
    <3>3. \A q \in Panel : Widgets(q)' = IF q = p THEN all ELSE IF q = cur THEN Others(w)
                                                            ELSE Widgets(q)
      BY <1>0, <1>3 DEF Widgets, ContentTypes
    <3> QED
      BY <1>7, <3>1, <3>2, <3>3 DEF Numbers
  <2>5. \A u \in live'[cur'] : \E v \in saved'[cur'] : v.id = u.id
    BY <2>2
  <2>6. w.id \in 1..made /\ w \in saved[cur]
    BY <1>0 DEF Numbers
  <2>7. \A m \in moves' : m.old \in 1..made'
    BY <1>0, <1>3, <2>6 DEF Numbers
  <2>8. \A q \in Panel : \A u \in saved'[q] : u.id # w.id
    <3>1. \A u \in Others(w) : u.id # w.id
      BY <1>0, <1>7, <2>6 DEF Numbers, Widgets
    <3> QED
      BY <1>0, <1>5, <2>1, <2>2, <2>6, <3>1 DEF Numbers, OnePlaceEach
  <2>9. OnePlaceEach'
    <3>1. \A q1, q2 \in Panel : q1 # q2 => \A u \in saved'[q1], v \in saved'[q2] : u.id # v.id
      BY <2>1, <2>2 DEF Numbers, OnePlaceEach
    <3>2. \A m \in moves' : \A q \in Panel : \A u \in saved'[q] : u.id # m.old
      <4> SUFFICES ASSUME NEW m \in moves', NEW q \in Panel, NEW u \in saved'[q]
                   PROVE  u.id # m.old
        OBVIOUS
      <4>1. CASE m \in moves
        BY <4>1, <1>0, <1>5, <2>2 DEF Numbers, OnePlaceEach
      <4>2. CASE m = [told |-> told, to |-> p, old |-> w.id]
        BY <4>2, <2>8
      <4> QED
        BY <1>3, <4>1, <4>2
    <3> QED
      BY <3>1, <3>2 DEF OnePlaceEach
  <2> QED
    BY <2>3, <2>4, <2>5, <2>7, <2>9 DEF Numbers
<1> QED
  BY <1>12, <1>13, <1>14, <1>15, <1>16

\* A widget in the place of another one of the panel.
LEMMA OthersFacts ==
  ASSUME NEW w, NEW r \in WidgetType,
         live[cur] \in SUBSET WidgetType, IsFiniteSet(live[cur])
  PROVE  Others(w) \cup {r} \in SUBSET WidgetType /\ IsFiniteSet(Others(w) \cup {r})
<1>1. Others(w) \in SUBSET WidgetType /\ IsFiniteSet(Others(w))
  BY FS_RemoveElement DEF Others
<1> QED
  BY <1>1, FS_AddElement

\* Radio buttons take the size of their configuration wherever they are.
LEMMA ConfigureStep ==
  ASSUME LayoutInv, NEW w \in live[cur], NEW n \in 2..MaxButtons, NEW v \in BOOLEAN,
         Configure(w, n, v)
  PROVE  LayoutInv'
<1> USE Constants DEF LayoutInv, tree, mode
<1> DEFINE plain == [w EXCEPT !.buttons = n, !.vertical = v]
           new == Restored(plain)
           ws == Others(w) \cup {new}
<1>0. /\ cur \in Panel /\ live[cur] = saved[cur] /\ loaded[cur] /\ drag = "none"
      /\ w \in WidgetType /\ n \in Nat \ {0} /\ Radio(w)
  BY DEF Configure, CanEdit, ModeTypes, OneShown, PlacesKept, ContentTypes
<1>1. plain \in WidgetType /\ plain.id = w.id /\ plain.buttons = n /\ plain.vertical = v
  BY <1>0 DEF WidgetType
<1> HIDE DEF plain
<1>2. new \in WidgetType /\ new.id = w.id /\ Radio(new)
  <2>1. RadioSize(n, v)[1] \in Nat \ {0} /\ RadioSize(n, v)[2] \in Nat \ {0}
    BY <1>0 DEF RadioSize
  <2>2. Radio(plain)
    BY <1>0, <1>1 DEF Radio
  <2> DEFINE wider == [plain EXCEPT !.width = RadioSize(n, v)[1]]
             sized == [wider EXCEPT !.height = RadioSize(n, v)[2]]
  <2>3. wider \in WidgetType /\ wider.id = w.id /\ wider.buttons = n
    BY <1>1, <2>1 DEF WidgetType
  <2>4. new = sized
    BY <1>1, <2>2 DEF Restored
  <2> HIDE DEF new, wider
  <2>5. sized \in WidgetType /\ sized.id = w.id /\ sized.buttons = n
    BY <2>1, <2>3 DEF WidgetType
  <2> QED
    BY <1>0, <2>4, <2>5 DEF Radio
<1>3. live' = [live EXCEPT ![cur] = ws] /\ saved' = [saved EXCEPT ![cur] = ws]
  BY <1>0 DEF Configure, ContentTypes, plain
<1> HIDE DEF new
<1>4. ws \in SUBSET WidgetType /\ IsFiniteSet(ws)
  BY <1>0, <1>2, OthersFacts DEF ContentTypes
<1>5. Placed(ws, width[cur], height[cur])
  <2>1. Placed(live[cur], width[cur], height[cur])
    BY <1>0 DEF PlacesKept, Widgets
  <2>2. Others(w) \in SUBSET live[cur] /\ Others(w) \in SUBSET WidgetType
    BY <1>0 DEF Others, ContentTypes
  <2>3. Placed(Others(w), width[cur], height[cur])
    BY <2>1, <2>2, FewerWidgets
  <2> QED
    BY <1>2, <2>2, <2>3, AnotherPlaced
<1>6. \A u \in ws : u = new \/ u \in saved[cur] \ {w}
  BY <1>0 DEF Others
<1> HIDE DEF ws
<1>7. ContentTypes'
  BY <1>0, <1>3, <1>4 DEF ContentTypes, Configure
<1>8. ModeTypes'
  BY DEF ModeTypes, Configure
<1>9. OneShown'
  BY DEF OneShown, Configure
<1>10. PlacesKept'
  BY <1>0, <1>2, <1>3, <1>5, <1>6 DEF ContentTypes, PlacesKept, Widgets, Configure
<1>11. Numbers'
  <2>1. \A q \in Panel : \A u \in saved'[q] : \E o \in saved[q] : o.id = u.id
    BY <1>0, <1>2, <1>3, <1>6 DEF ContentTypes
  <2>2. \A q \in Panel : \A u \in saved'[q] : u.id \in 1..made'
    BY <2>1 DEF Numbers, Configure
  <2>3. \A q \in Panel : \A u, o \in Widgets(q)' : u.id = o.id => u = o
    <3>1. \A u, o \in ws : u.id = o.id => u = o
      BY <1>0, <1>2, <1>6 DEF Numbers, Widgets
    <3> QED
      BY <1>0, <1>3, <3>1 DEF Numbers, Widgets, ContentTypes, Configure
  <2>4. live'[cur'] = saved'[cur']
    BY <1>0, <1>3 DEF ContentTypes, Configure
  <2>5. OnePlaceEach'
    BY <2>1 DEF Numbers, OnePlaceEach, Configure
  <2> QED
    BY <2>2, <2>3, <2>4, <2>5 DEF Numbers, Configure
<1> QED
  BY <1>7, <1>8, <1>9, <1>10, <1>11

\* A widget that is dragged stays a widget of its number and buttons.
LEMMA DraggedFacts ==
  ASSUME LayoutInv, cur \in Panel, NEW w \in WidgetType, NEW new \in Moved(w) \cup Resized(w)
  PROVE  new \in WidgetType /\ new.id = w.id /\ (Radio(new) <=> Radio(w))
<1>0. /\ width[cur] \in Nat /\ height[cur] \in Nat
      /\ w.left \in Nat /\ w.top \in Nat /\ w.width \in Nat \ {0} /\ w.height \in Nat \ {0}
  BY DEF LayoutInv, ContentTypes, WidgetType
<1>1. CASE new \in Moved(w)
  <2>1. PICK cell \in (0..Max2(0, width[cur] - w.width)) \X (0..Max2(0, height[cur] - w.height)) :
           new = [w EXCEPT !.left = cell[1], !.top = cell[2]]
    BY <1>1 DEF Moved
  <2>2. cell[1] \in Nat /\ cell[2] \in Nat
    BY <1>0, <2>1 DEF Max2
  <2> QED
    BY <2>1, <2>2 DEF WidgetType, Radio
<1>2. CASE new \in TopResized(w)
  <2>1. PICK y \in 0..w.top + w.height - 1 : new = [w EXCEPT !.top = y, !.height = w.height + w.top - y]
    BY <1>2 DEF TopResized
  <2>2. y \in Nat /\ w.height + w.top - y \in Nat \ {0}
    BY <1>0, <2>1
  <2> QED
    BY <2>1, <2>2 DEF WidgetType, Radio
<1>3. CASE new \in LeftResized(w)
  <2>1. PICK x \in 0..w.left + w.width - 1 : new = [w EXCEPT !.left = x, !.width = w.width + w.left - x]
    BY <1>3 DEF LeftResized
  <2>2. x \in Nat /\ w.width + w.left - x \in Nat \ {0}
    BY <1>0, <2>1
  <2> QED
    BY <2>1, <2>2 DEF WidgetType, Radio
<1>4. CASE new \in RightResized(w)
  <2>1. PICK x \in w.left + 1..width[cur] : new = [w EXCEPT !.width = x - w.left]
    BY <1>4 DEF RightResized
  <2>2. x - w.left \in Nat \ {0}
    BY <1>0, <2>1
  <2> QED
    BY <2>1, <2>2 DEF WidgetType, Radio
<1>5. CASE new \in BottomResized(w)
  <2>1. PICK y \in w.top + 1..height[cur] : new = [w EXCEPT !.height = y - w.top]
    BY <1>5 DEF BottomResized
  <2>2. y - w.top \in Nat \ {0}
    BY <1>0, <2>1
  <2> QED
    BY <2>1, <2>2 DEF WidgetType, Radio
<1> QED
  BY <1>1, <1>2, <1>3, <1>4, <1>5 DEF Resized

\* It follows the pointer only to where it fits.
LEMMA DragStep ==
  ASSUME LayoutInv, NEW w \in live[cur], Drag(w)
  PROVE  LayoutInv'
<1> USE Constants DEF LayoutInv, tree, mode
<1>0. cur \in Panel /\ loaded[cur] /\ drag # "none" /\ w \in WidgetType
  BY DEF Drag, ModeTypes, OneShown, ContentTypes
<1>1. PICK new \in (Moved(w) \cup Resized(w)) \ {w} :
         /\ Fits(new, width[cur], height[cur], Others(w))
         /\ live' = [live EXCEPT ![cur] = Others(w) \cup {new}]
  BY DEF Drag
<1>2. new \in WidgetType /\ new.id = w.id
  BY <1>0, <1>1, DraggedFacts
<1> DEFINE ws == Others(w) \cup {new}
<1>3. ws \in SUBSET WidgetType /\ IsFiniteSet(ws)
  BY <1>0, <1>2, OthersFacts DEF ContentTypes
<1>4. Placed(ws, width[cur], height[cur])
  <2>1. Placed(live[cur], width[cur], height[cur])
    BY <1>0 DEF PlacesKept, Widgets
  <2>2. Others(w) \in SUBSET live[cur] /\ Others(w) \in SUBSET WidgetType
    BY <1>0 DEF Others, ContentTypes
  <2>3. Placed(Others(w), width[cur], height[cur])
    BY <2>1, <2>2, FewerWidgets
  <2> QED
    BY <1>1, <1>2, <2>2, <2>3, AnotherPlaced
<1>5. \A u \in ws : u = new \/ u \in live[cur] \ {w}
  BY DEF Others
<1>6. live' = [live EXCEPT ![cur] = ws]
  BY <1>1
<1> HIDE DEF ws
<1>7. ContentTypes'
  BY <1>3, <1>6 DEF ContentTypes, Drag
<1>8. ModeTypes'
  BY DEF ModeTypes, Drag
<1>9. OneShown'
  BY <1>0 DEF OneShown, Drag
<1>10. PlacesKept'
  BY <1>0, <1>4, <1>6 DEF ContentTypes, PlacesKept, Widgets, Drag
<1>11. Numbers'
  <2>1. \A q \in Panel : \A u, o \in Widgets(q)' : u.id = o.id => u = o
    <3>1. \A u, o \in ws : u.id = o.id => u = o
      BY <1>0, <1>2, <1>5 DEF Numbers, Widgets
    <3> QED
      BY <1>0, <1>6, <3>1 DEF Numbers, Widgets, ContentTypes, Drag
  <2>2. \A u \in live'[cur'] : \E o \in saved'[cur'] : o.id = u.id
    BY <1>0, <1>2, <1>5, <1>6 DEF Numbers, ContentTypes, Drag
  <2> QED
    BY <2>1, <2>2 DEF Numbers, OnePlaceEach, Drag
<1> QED
  BY <1>7, <1>8, <1>9, <1>10, <1>11

LEMMA DragEndStep ==
  ASSUME LayoutInv, DragEnd
  PROVE  LayoutInv'
<1> USE Constants DEF LayoutInv, tree, mode
<1>0. /\ cur \in Panel /\ loaded[cur] /\ options[cur] \in OptionsType
      /\ live[cur] \in SUBSET WidgetType /\ IsFiniteSet(live[cur])
  BY DEF DragEnd, ModeTypes, OneShown, ContentTypes
<1>1. CASE drag = "changed"
  <2> DEFINE o == Limited(options[cur], live[cur])
  <2>1. o \in OptionsType /\ \A r \in live[cur] : Within(r, o.minw, o.minh)
    BY <1>0, LimitedFacts
  <2>2. saved' = [saved EXCEPT ![cur] = live[cur]] /\ options' = [options EXCEPT ![cur] = o]
    BY <1>0, <1>1 DEF DragEnd, ContentTypes
  <2> HIDE DEF o
  <2>3. ContentTypes'
    BY <1>0, <2>1, <2>2 DEF ContentTypes, DragEnd
  <2>4. ModeTypes'
    BY DEF ModeTypes, DragEnd
  <2>5. OneShown'
    BY <1>0, <2>1, <2>2 DEF ContentTypes, OneShown, DragEnd
  <2>6. PlacesKept'
    BY <1>0, <2>1, <2>2 DEF ContentTypes, PlacesKept, Widgets, DragEnd
  <2>7. Numbers'
    <3>1. \A q \in Panel : \A u \in saved'[q] : \E v \in saved[q] : v.id = u.id
      BY <1>0, <2>2 DEF Numbers, ContentTypes
    <3>2. \A q \in Panel : \A u, v \in Widgets(q)' : u.id = v.id => u = v
      BY <1>0, <2>2 DEF Numbers, Widgets, ContentTypes, DragEnd
    <3>3. live'[cur'] = saved'[cur']
      BY <1>0, <2>2 DEF ContentTypes, DragEnd
    <3>4. OnePlaceEach'
      BY <3>1 DEF Numbers, OnePlaceEach, DragEnd
    <3>5. \A q \in Panel : \A u \in saved'[q] : u.id \in 1..made'
      BY <3>1 DEF Numbers, DragEnd
    <3> QED
      BY <3>2, <3>3, <3>4, <3>5 DEF Numbers, DragEnd
  <2> QED
    BY <2>3, <2>4, <2>5, <2>6, <2>7
<1>2. CASE drag # "changed"
  BY <1>0, <1>2 DEF DragEnd, ContentTypes, ModeTypes, OneShown, PlacesKept, Widgets, Numbers,
     OnePlaceEach
<1> QED
  BY <1>1, <1>2

\* What changes neither a panel nor a widget.
LEMMA ModeStep ==
  ASSUME LayoutInv, ToggleEdit \/ (\E w \in live[cur] : DragBegin(w)) \/ UNCHANGED vars
  PROVE  LayoutInv'
<1> USE DEF LayoutInv, tree, content, mode, vars
<1>1. ModeTypes'
  <2>1. ASSUME NEW w \in live[cur], DragBegin(w) PROVE w.id \in Nat
    BY <2>1, Constants DEF DragBegin, CanEdit, ContentTypes, ModeTypes, WidgetType
  <2> QED
    BY <2>1 DEF ToggleEdit, DragBegin, ModeTypes
<1>2. ContentTypes'
  BY DEF ToggleEdit, DragBegin, ContentTypes
<1>3. OneShown' /\ PlacesKept'
  BY DEF ToggleEdit, DragBegin, CanEdit, OneShown, PlacesKept, Widgets
<1>4. Numbers'
  BY DEF ToggleEdit, DragBegin, Numbers, OnePlaceEach, Widgets
<1> QED
  BY <1>1, <1>2, <1>3, <1>4

LEMMA LayoutStepHolds == LayoutInv /\ [Next]_vars => LayoutInv'
<1> SUFFICES ASSUME LayoutInv, [Next]_vars PROVE LayoutInv'
  OBVIOUS
<1>1. CASE \E p \in Panel, g \in Group, n \in Name : AddPanel(p, g, n)
  BY <1>1, AddPanelStep
<1>2. CASE \E p \in Panel : Show(p)
  BY <1>2, ShowStep
<1>3. CASE ClosePanel \/ RemovePanel
  BY <1>3, CloseStep, RemovePanelStep
<1>4. CASE \E n \in Name, w, h \in 1..MaxSize : Options(n, w, h)
  BY <1>4, OptionsStep
<1>5. CASE \E shape \in Shape : Pick(shape)
  BY <1>5, PickStep
<1>6. CASE \E w \in live[cur] : Duplicate(w) \/ RemoveWidget(w) \/ Drag(w)
  BY <1>6, DuplicateStep, RemoveStep, DragStep
<1>7. CASE \E w \in live[cur] : \E told, p \in Panel : MoveTo(w, told, p)
  BY <1>7, MoveStep
<1>8. CASE \E w \in live[cur] : \E n \in 2..MaxButtons, v \in BOOLEAN : Configure(w, n, v)
  BY <1>8, ConfigureStep
<1>9. CASE ToggleEdit \/ (\E w \in live[cur] : DragBegin(w)) \/ UNCHANGED vars
  BY <1>9, ModeStep
<1>10. CASE DragEnd
  BY <1>10, DragEndStep
<1> QED
  BY <1>1, <1>2, <1>3, <1>4, <1>5, <1>6, <1>7, <1>8, <1>9, <1>10, Zenon DEF Next

\* What it says of widgets is what a panel shows.
LEMMA LayoutFollows == LayoutInv => LayoutHolds
<1> SUFFICES ASSUME LayoutInv PROVE LayoutHolds
  OBVIOUS
<1>1. EachHasItsPlace
  BY DEF LayoutInv, EachHasItsPlace, PlacesKept, Placed, Widgets
<1>2. ShownIsSaved
  BY Constants DEF LayoutInv, ShownIsSaved, Settled, PlacesKept, OneShown
<1> QED
  BY <1>1, <1>2 DEF LayoutInv, Numbers, LayoutHolds

\* Whatever the user drags, resizes, copies, moves or configures, however many panels and
\* widgets there are: no two widgets but radio buttons overlap and none is outside its panel,
\* what is shown is what is saved, and a widget is in one panel (verifyWidgetLayout(), save(),
\* moveToPanel()).
THEOREM LayoutCorrect == Spec => []LayoutHolds
<1>1. Init => LayoutInv
  BY LayoutInit
<1>2. LayoutInv /\ [Next]_vars => LayoutInv'
  BY LayoutStepHolds
<1>3. LayoutInv => LayoutHolds
  BY LayoutFollows
<1> QED
  BY <1>1, <1>2, <1>3, PTL DEF Spec

(* --------- the panels of a browser and those on the server --------------- *)

\* A set of numbers from 0 to n that has 0, and the next of each it has, has them all.
LEMMA Counting ==
  ASSUME NEW n \in Nat, NEW T, 0 \in T, \A i \in 1..n : i - 1 \in T => i \in T
  PROVE  \A i \in 0..n : i \in T
  <1> DEFINE B == {i \in 0..n : i \notin T}
  <1>1. CASE B = {}
    BY <1>1
  <1>2. CASE B # {}
    <2>1. PICK m \in B : \A y \in B : m <= y
      <3>1. B \subseteq Nat
        OBVIOUS
      <3> HIDE DEF B
      <3> QED
        BY <1>2, <3>1, LeastNumber
    <2>2. m \in 1..n /\ m - 1 \in 0..n /\ m \notin T
      BY <2>1
    <2>3. m - 1 \in T
      BY <2>1, <2>2
    <2> QED
      BY <2>2, <2>3
  <1> QED
    BY <1>1, <1>2

\* left[i] is what Filtered leaves of the first i entries.
Filters(left, q, only) ==
    /\ S!Filtered(q, only) = left[Len(q)]
    /\ left[0] = <<>>
    /\ \A i \in 1..Len(q) :
          left[i] = IF q[i] \in only THEN Append(left[i - 1], q[i]) ELSE left[i - 1]

\* The recursion of Filtered defines a function.
LEMMA FilteredDefined ==
  ASSUME NEW Ty, NEW q \in Seq(Ty), NEW only
  PROVE  \E left : Filters(left, q, only)
  <1> DEFINE n == Len(q)
             More(s, i) == IF q[i] \in only THEN Append(s, q[i]) ELSE s
             Good(g, m) == /\ g \in [0..m -> Seq(Ty)]
                           /\ g[0] = <<>>
                           /\ \A i \in 1..m : g[i] = More(g[i - 1], i)
             T == {m \in 0..n : \E g : Good(g, m)}
             F(g) == [i \in 0..n |-> IF i = 0 THEN <<>> ELSE More(g[i - 1], i)]
  <1>1. n \in Nat
    BY LenProperties
  <1>2. \A s \in Seq(Ty), i \in 1..n : More(s, i) \in Seq(Ty)
    BY ElementOfSeq, AppendProperties
  <1>3. S!Filtered(q, only) = (CHOOSE f : f = F(f))[n]
    BY DEF S!Filtered
  <1> HIDE DEF n, More
  <1>4. 0 \in T
    <2>1. Good([i \in 0..0 |-> <<>>], 0)
      BY EmptySeq
    <2> HIDE DEF Good
    <2> QED
      BY <1>1, <2>1
  <1>5. \A m \in 1..n : m - 1 \in T => m \in T
    <2> SUFFICES ASSUME NEW m \in 1..n, NEW g, Good(g, m - 1) PROVE \E h : Good(h, m)
      <3> HIDE DEF Good
      <3> QED
        BY <1>1
    <2> DEFINE h == [i \in 0..m |-> IF i = m THEN More(g[m - 1], m) ELSE g[i]]
    <2>1. m \in Nat /\ m # 0 /\ m - 1 \in 0..(m - 1) /\ g[m - 1] \in Seq(Ty)
      BY <1>1
    <2>2. More(g[m - 1], m) \in Seq(Ty)
      BY <1>2, <2>1
    <2>3. h \in [0..m -> Seq(Ty)] /\ h[0] = <<>>
      BY <2>1, <2>2
    <2>4. ASSUME NEW i \in 1..m PROVE h[i] = More(h[i - 1], i)
      <3>1. h[i - 1] = g[i - 1]
        BY <2>1
      <3>2. CASE i = m
        BY <3>1, <3>2
      <3>3. CASE i # m
        <4>1. i \in 1..(m - 1) /\ h[i] = g[i]
          BY <2>1, <3>3
        <4>2. g[i] = More(g[i - 1], i)
          BY <4>1
        <4> QED
          BY <3>1, <4>1, <4>2
      <3> QED
        BY <3>2, <3>3
    <2> HIDE DEF h
    <2> QED
      BY <2>3, <2>4
  <1>6. n \in T
    <2> HIDE DEF T
    <2>1. \A i \in 0..n : i \in T
      BY <1>1, <1>4, <1>5, Counting
    <2> QED
      BY <1>1, <2>1
  <1>7. PICK g : Good(g, n)
    BY <1>6
  <1>8. g = F(g)
    <2>1. \A i \in 0..n : g[i] = F(g)[i]
      BY <1>1, <1>7
    <2>2. g \in [0..n -> Seq(Ty)]
      BY <1>7
    <2> QED
      BY <2>1, <2>2
  <1> DEFINE left == CHOOSE f : f = F(f)
  <1>9. left = F(left)
    <2> HIDE DEF F
    <2> QED
      BY <1>8
  <1> HIDE DEF left
  <1>10. left[0] = <<>>
    BY <1>1, <1>9
  <1>11. ASSUME NEW i \in 1..n PROVE left[i] = More(left[i - 1], i)
    <2>1. F(left)[i] = More(left[i - 1], i)
      BY <1>1
    <2> QED
      BY <1>9, <2>1, Zenon
  <1>12. S!Filtered(q, only) = left[n]
    BY <1>3 DEF left
  <1> QED
    BY <1>10, <1>11, <1>12 DEF n, More, Filters

\* Filtered keeps the entries wanted, all of them.
LEMMA FilteredFacts ==
  ASSUME NEW Ty, NEW q \in Seq(Ty), NEW only
  PROVE  /\ S!Filtered(q, only) \in Seq(Ty)
         /\ \A e : (\E i \in DOMAIN S!Filtered(q, only) : S!Filtered(q, only)[i] = e)
                   <=> (e \in only /\ \E i \in DOMAIN q : q[i] = e)
  <1>0. PICK left : Filters(left, q, only)
    BY FilteredDefined
  <1> DEFINE n == Len(q)
             Has(s, m) == /\ s \in Seq(Ty)
                          /\ \A e : (\E i \in 1..Len(s) : s[i] = e)
                                    <=> (e \in only /\ \E i \in 1..m : q[i] = e)
             T == {m \in 0..n : Has(left[m], m)}
  <1>1. /\ S!Filtered(q, only) = left[n] /\ left[0] = <<>>
        /\ \A i \in 1..n : left[i] = IF q[i] \in only THEN Append(left[i - 1], q[i]) ELSE left[i - 1]
    BY <1>0 DEF Filters
  <1>2. n \in Nat /\ DOMAIN q = 1..n /\ \A i \in 1..n : q[i] \in Ty
    BY LenProperties, ElementOfSeq
  <1>3. 0 \in T
    <2>1. <<>> \in Seq(Ty) /\ 1..Len(<<>>) = {} /\ 1..0 = {}
      BY EmptySeq
    <2>2. Has(<<>>, 0)
      BY <2>1
    <2> HIDE DEF Has
    <2> QED
      BY <1>1, <1>2, <2>2
  <1>4. \A m \in 1..n : m - 1 \in T => m \in T
    <2> SUFFICES ASSUME NEW m \in 1..n, Has(left[m - 1], m - 1) PROVE Has(left[m], m)
      <3> HIDE DEF Has
      <3> QED
        BY <1>2
    <2> DEFINE s == left[m - 1]
               t == Append(s, q[m])
    <2>1. s \in Seq(Ty) /\ 1..m = 1..(m - 1) \cup {m} /\ q[m] \in Ty
      BY <1>2
    <2>2. CASE q[m] \notin only
      <3>1. left[m] = s
        BY <1>1, <2>2
      <3> QED
        BY <2>1, <2>2, <3>1
    <2>3. CASE q[m] \in only
      <3>1. left[m] = t
        BY <1>1, <2>3
      <3>2. /\ t \in Seq(Ty) /\ Len(t) = Len(s) + 1 /\ Len(s) \in Nat
            /\ \A i \in 1..Len(s) : t[i] = s[i]
            /\ t[Len(s) + 1] = q[m]
        BY <2>1, AppendProperties, LenProperties
      <3>3. 1..Len(t) = 1..Len(s) \cup {Len(s) + 1}
        BY <3>2
      <3>4. \A e : (\E i \in 1..Len(t) : t[i] = e) <=> (\E i \in 1..Len(s) : s[i] = e) \/ e = q[m]
        <4> HIDE DEF t, s
        <4> QED
          BY <3>2, <3>3
      <3>5. \A e : (\E i \in 1..Len(s) : s[i] = e) <=> (e \in only /\ \E i \in 1..(m - 1) : q[i] = e)
        OBVIOUS
      <3> HIDE DEF t, s, Has
      <3>6. \A e : (\E i \in 1..Len(t) : t[i] = e) <=> (e \in only /\ \E i \in 1..m : q[i] = e)
        BY <2>1, <2>3, <3>4, <3>5
      <3> QED
        BY <3>1, <3>2, <3>6 DEF Has
    <2> QED
      BY <2>2, <2>3
  <1>5. \A m \in 0..n : m \in T
    <2> HIDE DEF T, n
    <2> QED
      BY <1>2, <1>3, <1>4, Counting
  <1>6. Has(left[n], n)
    <2> HIDE DEF Has
    <2> QED
      BY <1>2, <1>5
  <1>7. DOMAIN left[n] = 1..Len(left[n])
    BY <1>6, LenProperties
  <1> QED
    BY <1>1, <1>2, <1>6, <1>7

Own(e) == e.by = "me"
Ending(s) == s[Len(s)]
OwnOnTheWay == \E i \in DOMAIN events : Own(events[i])

\* What is on its way, and the panels that each variable holds.
EventType == [panels : SUBSET S!Edit, by : {"me", "other", "nobody"}]
SyncTypes ==
    /\ {stored, known, root, answer} \subseteq SUBSET S!Edit
    /\ puts \in Seq(SUBSET S!Edit) /\ applying \in Seq(SUBSET S!Edit)
    /\ events \in Seq(EventType)

\* The newest event on its way has what the server has; when there is none, the answer under
\* way has, or the browser knows it.
ServerKnown ==
    /\ events # <<>> => Ending(events).panels = stored
    /\ events = <<>> /\ asked = "answered" => answer = stored
    /\ events = <<>> /\ connected => known = stored \/ asked # "no"

\* What waits for the pages to close ends with what the browser knows; when nothing waits, it
\* is shown, or what is shown is on its way to the server or back.
ShownKnown ==
    /\ applying # <<>> => Ending(applying) = known
    /\ applying = <<>> /\ ~pending =>
          IF puts # <<>> THEN Ending(puts) = root
          ELSE IF OwnOnTheWay THEN \A i \in DOMAIN events : Own(events[i]) => events[i].panels = root
          ELSE root = known

\* As long as nobody else edits, nothing comes from the server but what was put here.
OnlyMine ==
    edits \subseteq Mine =>
        /\ applying = <<>> /\ \A i \in DOMAIN events : Own(events[i])
        /\ events = <<>> => known = stored
        /\ edits \subseteq root

Synced == SyncTypes /\ ServerKnown /\ ShownKnown /\ OnlyMine

\* What the properties say nothing of once there is an excuse.
SyncInv == excused \/ Synced

-----------------------------------------------------------------------------
(* Sequences *)

\* What is last when something is put at the end, or the first is taken away.
LEMMA EndingOfAppend ==
  ASSUME NEW Ty, NEW s \in Seq(Ty), NEW e \in Ty
  PROVE  /\ Append(s, e) \in Seq(Ty) /\ Append(s, e) # <<>> /\ Ending(Append(s, e)) = e
         /\ \A i \in DOMAIN Append(s, e) : Append(s, e)[i] = e \/ \E j \in DOMAIN s : Append(s, e)[i] = s[j]
         /\ \A j \in DOMAIN s : j \in DOMAIN Append(s, e) /\ Append(s, e)[j] = s[j]
         /\ \E i \in DOMAIN Append(s, e) : Append(s, e)[i] = e
<1>1. /\ Append(s, e) \in Seq(Ty) /\ Len(Append(s, e)) = Len(s) + 1 /\ Len(s) \in Nat
      /\ \A i \in 1..Len(s) : Append(s, e)[i] = s[i]
      /\ Append(s, e)[Len(s) + 1] = e
      /\ DOMAIN Append(s, e) = 1..Len(s) + 1 /\ DOMAIN s = 1..Len(s)
  BY AppendProperties, LenProperties
<1> QED
  BY <1>1 DEF Ending

LEMMA EndingOfTail ==
  ASSUME NEW Ty, NEW s \in Seq(Ty), s # <<>>
  PROVE  /\ Tail(s) \in Seq(Ty) /\ Head(s) \in Ty /\ Ending(s) \in Ty
         /\ Tail(s) # <<>> => Ending(Tail(s)) = Ending(s)
         /\ Tail(s) = <<>> => Head(s) = Ending(s)
         /\ 1 \in DOMAIN s /\ s[1] = Head(s)
         /\ \A i \in DOMAIN Tail(s) : \E j \in DOMAIN s : Tail(s)[i] = s[j]
         /\ \A j \in DOMAIN s : s[j] = Head(s) \/ \E i \in DOMAIN Tail(s) : Tail(s)[i] = s[j]
<1>1. /\ Len(s) \in Nat \ {0} /\ DOMAIN s = 1..Len(s) /\ \A i \in 1..Len(s) : s[i] \in Ty
  BY EmptySeq, LenProperties, ElementOfSeq
<1>2. /\ Tail(s) \in Seq(Ty) /\ Len(Tail(s)) = Len(s) - 1 /\ DOMAIN Tail(s) = 1..(Len(s) - 1)
      /\ \A i \in 1..(Len(s) - 1) : Tail(s)[i] = s[i + 1]
  BY HeadTailProperties, LenProperties
<1>3. Tail(s) # <<>> <=> Len(s) # 1
  <2>1. Tail(s) # <<>> => Len(Tail(s)) # 0
    BY <1>2, EmptySeq
  <2>2. Len(<<>>) = 0
    BY EmptySeq
  <2> QED
    BY <1>1, <1>2, <2>1, <2>2
<1>4. Head(s) = s[1]
  BY <1>1
<1> HIDE DEF Ending
<1>5. Tail(s) # <<>> => Ending(Tail(s)) = Ending(s)
  BY <1>1, <1>2, <1>3 DEF Ending
<1>6. \A j \in DOMAIN s : s[j] = Head(s) \/ \E i \in DOMAIN Tail(s) : Tail(s)[i] = s[j]
  <2> TAKE j \in DOMAIN s
  <2>1. j = 1 \/ (j - 1 \in DOMAIN Tail(s) /\ Tail(s)[j - 1] = s[j])
    BY <1>1, <1>2
  <2> QED
    BY <2>1, <1>4
<1> QED
  BY <1>1, <1>2, <1>3, <1>4, <1>5, <1>6 DEF Ending

\* The first of the requests is answered.
LEMMA FirstRemoved ==
  ASSUME NEW Ty, NEW s \in Seq(Ty), s # <<>>
  PROVE  S!RemoveAt(s, 1) = Tail(s)
<1>1. Tail(s) = SubSeq(s, 2, Len(s)) /\ SubSeq(s, 1, 0) = <<>> /\ Tail(s) \in Seq(Ty)
  BY TailIsSubSeq, SubSeqEmpty, HeadTailProperties
<1>2. S!RemoveAt(s, 1) = SubSeq(s, 1, 0) \o SubSeq(s, 2, Len(s))
  BY DEF S!RemoveAt
<1> QED
  BY <1>1, <1>2, ConcatEmptySeq

\* An event that is pushed is the last one; of the others those of the same session go
\* (Session.push()).
LEMMA PushedFacts ==
  ASSUME events \in Seq(EventType), NEW panels \in SUBSET S!Edit, NEW by \in {"me", "other"}
  PROVE  /\ S!Pushed(panels, by) \in Seq(EventType) /\ S!Pushed(panels, by) # <<>>
         /\ Ending(S!Pushed(panels, by)).panels = panels
         /\ \A i \in DOMAIN S!Pushed(panels, by) :
               \/ S!Pushed(panels, by)[i] = [panels |-> panels, by |-> by]
               \/ \E j \in DOMAIN events : events[j] = S!Pushed(panels, by)[i] /\ events[j].by # by
         /\ by = "me" => \E i \in DOMAIN S!Pushed(panels, by) : Own(S!Pushed(panels, by)[i])
         /\ \A j \in DOMAIN events : events[j].by # by =>
               \E i \in DOMAIN S!Pushed(panels, by) : S!Pushed(panels, by)[i] = events[j]
<1> DEFINE only == {e \in S!ToSet(events) : e.by # by}
           rest == S!Filtered(events, only)
           new == [panels |-> panels, by |-> by]
<1>1. S!Pushed(panels, by) = Append(rest, new)
  BY DEF S!Pushed
<1>2. new \in EventType /\ new.panels = panels /\ new.by = by
  BY DEF EventType
<1>3. /\ rest \in Seq(EventType)
      /\ \A e : (\E i \in DOMAIN rest : rest[i] = e) <=> (e \in only /\ \E i \in DOMAIN events : events[i] = e)
  <2> HIDE DEF only
  <2> QED
    BY FilteredFacts
<1>4. \A e : e \in only <=> (e.by # by /\ \E i \in DOMAIN events : events[i] = e)
  BY DEF S!ToSet
<1>a. rest \in Seq(EventType)
  BY <1>3
<1> HIDE DEF rest, only, new
<1>5. /\ Append(rest, new) \in Seq(EventType) /\ Append(rest, new) # <<>>
      /\ Ending(Append(rest, new)) = new
      /\ \A i \in DOMAIN Append(rest, new) :
            Append(rest, new)[i] = new \/ \E j \in DOMAIN rest : Append(rest, new)[i] = rest[j]
      /\ \A j \in DOMAIN rest : j \in DOMAIN Append(rest, new) /\ Append(rest, new)[j] = rest[j]
      /\ \E i \in DOMAIN Append(rest, new) : Append(rest, new)[i] = new
  <2>1. new \in EventType
    BY <1>2
  <2>2. Append(rest, new) \in Seq(EventType) /\ Append(rest, new) # <<>>
    BY <2>1, <1>a, EndingOfAppend
  <2>3. Ending(Append(rest, new)) = new
    BY <2>1, <1>a, EndingOfAppend
  <2>4. \A i \in DOMAIN Append(rest, new) :
            Append(rest, new)[i] = new \/ \E j \in DOMAIN rest : Append(rest, new)[i] = rest[j]
    BY <2>1, <1>a, EndingOfAppend
  <2>5. \A j \in DOMAIN rest : j \in DOMAIN Append(rest, new) /\ Append(rest, new)[j] = rest[j]
    BY <2>1, <1>a, EndingOfAppend
  <2>6. \E i \in DOMAIN Append(rest, new) : Append(rest, new)[i] = new
    BY <2>1, <1>a, EndingOfAppend
  <2> QED
    BY <2>2, <2>3, <2>4, <2>5, <2>6
<1> DEFINE all == Append(rest, new)
<1> HIDE DEF all
<1>6. \A i \in DOMAIN all : all[i] = new \/ \E j \in DOMAIN events : events[j] = all[i] /\ events[j].by # by
  BY <1>3, <1>4, <1>5 DEF all
<1>7. \A j \in DOMAIN events : events[j].by # by => \E i \in DOMAIN all : all[i] = events[j]
  <2> SUFFICES ASSUME NEW j \in DOMAIN events, events[j].by # by
               PROVE  \E i \in DOMAIN all : all[i] = events[j]
    OBVIOUS
  <2>1. PICK k \in DOMAIN rest : rest[k] = events[j]
    BY <1>3, <1>4
  <2> QED
    BY <2>1, <1>5 DEF all
<1> QED
  BY <1>1, <1>2, <1>5, <1>6, <1>7 DEF all, Own, new

-----------------------------------------------------------------------------
(* The steps *)

\* Edits made here are not made elsewhere.
LEMMA NotMine == \A e \in Theirs \cup {Old} : e \notin Mine
BY DashboardAssumption

LEMMA SyncInit == S!Init => SyncInv
<1> SUFFICES ASSUME S!Init PROVE Synced
  BY DEF SyncInv
<1>1. SyncTypes
  BY EmptySeq DEF S!Init, SyncTypes, S!Edit
<1>2. ServerKnown /\ ShownKnown
  BY DEF S!Init, ServerKnown, ShownKnown, OwnOnTheWay
<1>3. OnlyMine
  BY NotMine DEF S!Init, OnlyMine
<1> QED
  BY <1>1, <1>2, <1>3 DEF Synced

\* An edit made here is shown, and will be saved.
LEMMA EditHereSync ==
  ASSUME Synced, NEW e \in Mine, S!EditHere(e)
  PROVE  Synced'
<1> USE DEF Synced, S!EditHere, S!server, S!get
<1>1. SyncTypes'
  BY DEF SyncTypes, S!Edit
<1>2. ServerKnown' /\ ShownKnown'
  BY DEF ServerKnown, ShownKnown, OwnOnTheWay, Own, Ending
<1>3. OnlyMine'
  BY DEF OnlyMine, Own
<1> QED
  BY <1>1, <1>2, <1>3

LEMMA SaveSync ==
  ASSUME Synced, S!Save
  PROVE  Synced'
<1> USE DEF Synced, S!Save, S!server, S!get
<1>1. puts' \in Seq(SUBSET S!Edit) /\ puts' # <<>> /\ Ending(puts') = root
  BY EndingOfAppend DEF SyncTypes
<1>2. SyncTypes'
  BY <1>1 DEF SyncTypes
<1>3. ServerKnown' /\ OnlyMine'
  BY DEF ServerKnown, OnlyMine, Own, Ending
<1>4. ShownKnown'
  <2>1. Ending(applying)' = Ending(applying) /\ Ending(puts)' = Ending(puts')
    BY DEF Ending
  <2> QED
    BY <1>1, <2>1 DEF ShownKnown
<1> QED
  BY <1>2, <1>3, <1>4

\* The panels put are the server's and come back in an event.
LEMMA StoredSync ==
  ASSUME Synced, NEW i \in DOMAIN puts, S!Stored(i), ~excused'
  PROVE  Synced'
<1> USE DEF Synced, S!browser, S!get
<1>1. /\ i = 1 /\ ~S!Raises /\ puts # <<>> /\ puts \in Seq(SUBSET S!Edit)
      /\ events \in Seq(EventType)
  <2>1. puts \in Seq(SUBSET S!Edit) /\ events \in Seq(EventType)
    BY DEF SyncTypes
  <2>2. DOMAIN puts = 1..Len(puts) /\ Len(<<>>) = 0
    BY <2>1, LenProperties, EmptySeq
  <2>3. puts # <<>>
    BY <2>2
  <2>4. i = 1 /\ ~S!Raises
    BY DEF S!Stored
  <2> QED
    BY <2>1, <2>3, <2>4
<1>2. /\ puts' = Tail(puts) /\ stored' = puts[1] /\ events' = S!Pushed(puts[1], "me")
      /\ UNCHANGED <<known, root, pending, applying, asked, answer, connected, edits>>
  BY <1>1, FirstRemoved DEF S!Stored
<1>3. /\ Tail(puts) \in Seq(SUBSET S!Edit) /\ puts[1] \in SUBSET S!Edit
      /\ Tail(puts) # <<>> => Ending(Tail(puts)) = Ending(puts)
      /\ Tail(puts) = <<>> => puts[1] = Ending(puts)
  BY <1>1, EndingOfTail
<1>4. /\ events' \in Seq(EventType) /\ events' # <<>> /\ Ending(events').panels = puts[1]
      /\ \A k \in DOMAIN events' :
            \/ events'[k] = [panels |-> puts[1], by |-> "me"]
            \/ \E j \in DOMAIN events : events[j] = events'[k] /\ events[j].by # "me"
      /\ \E k \in DOMAIN events' : Own(events'[k])
  BY <1>1, <1>2, <1>3, PushedFacts
<1>5. SyncTypes'
  BY <1>2, <1>3, <1>4 DEF SyncTypes
<1>6. ServerKnown'
  BY <1>2, <1>4 DEF ServerKnown, Ending
<1>7. ShownKnown'
  <2>1. OwnOnTheWay'
    BY <1>4 DEF OwnOnTheWay, Own
  <2>2. \A k \in DOMAIN events' : Own(events'[k]) => events'[k].panels = puts[1]
    BY <1>4 DEF Own
  <2>3. applying # <<>> => Ending(applying) = known
    BY DEF ShownKnown
  <2>4. applying = <<>> /\ ~pending => Ending(puts) = root
    BY <1>1 DEF ShownKnown
  <2>5. CASE Tail(puts) # <<>>
    BY <1>2, <1>3, <2>3, <2>4, <2>5 DEF ShownKnown, Ending
  <2>6. CASE Tail(puts) = <<>>
    <3>1. \A k \in DOMAIN events' : Own(events'[k]) => events'[k].panels = Ending(puts)
      BY <1>3, <2>2, <2>6
    <3>2. puts' = <<>> /\ Ending(applying)' = Ending(applying)
      BY <1>2, <2>6 DEF Ending
    <3> QED
      BY <1>2, <2>1, <2>3, <2>4, <3>1, <3>2 DEF ShownKnown, Own
  <2> QED
    BY <2>5, <2>6
<1>8. OnlyMine'
  <2> SUFFICES ASSUME edits \subseteq Mine
               PROVE  /\ applying = <<>> /\ \A k \in DOMAIN events' : Own(events'[k])
                      /\ edits \subseteq root
    BY <1>2, <1>4 DEF OnlyMine, Own
  <2>1. \A j \in DOMAIN events : events[j].by = "me"
    BY DEF OnlyMine, Own
  <2> QED
    BY <1>4, <2>1 DEF OnlyMine, Own
<1> QED
  BY <1>5, <1>6, <1>7, <1>8

\* What others store comes in an event; what was put here stays on its way.
LEMMA ElsewhereSync ==
  ASSUME Synced, ~excused, ~excused', NEW e \in Theirs,
         (\E base \in {stored, {Old}} : S!EditElsewhere(e, base)) \/ S!Restore(e)
  PROVE  Synced'
<1> USE DEF Synced, S!browser, S!get
<1>1. /\ stored' \in SUBSET S!Edit /\ edits' = edits \cup {e}
      /\ UNCHANGED <<known, root, pending, applying, puts, asked, answer, connected>>
  BY DEF S!EditElsewhere, S!Restore, SyncTypes, S!Edit
<1>2. events \in Seq(EventType)
  BY DEF SyncTypes
<1>3. /\ events' \in Seq(EventType) /\ events' # <<>> /\ Ending(events').panels = stored'
      /\ \A i \in DOMAIN events' : Own(events'[i]) => \E j \in DOMAIN events : events[j] = events'[i]
      /\ \A j \in DOMAIN events : Own(events[j]) => \E i \in DOMAIN events' : events'[i] = events[j]
  <2>1. CASE S!Restore(e)
    <3> DEFINE new == [panels |-> stored', by |-> "nobody"]
    <3>1. events' = Append(events, new) /\ new \in EventType
      BY <1>1, <2>1 DEF S!Restore, EventType
    <3>2. ~Own(new) /\ new.panels = stored'
      BY DEF Own
    <3> HIDE DEF new
    <3>3. /\ events' \in Seq(EventType) /\ events' # <<>> /\ Ending(events') = new
          /\ \A i \in DOMAIN events' : events'[i] = new \/ \E j \in DOMAIN events : events'[i] = events[j]
          /\ \A j \in DOMAIN events : j \in DOMAIN events' /\ events'[j] = events[j]
      BY <1>2, <3>1, EndingOfAppend
    <3> QED
      BY <3>2, <3>3
  <2>2. CASE \E base \in {stored, {Old}} : S!EditElsewhere(e, base)
    <3>1. events' = S!Pushed(stored', "other")
      BY <2>2 DEF S!EditElsewhere
    <3>2. /\ events' \in Seq(EventType) /\ events' # <<>> /\ Ending(events').panels = stored'
          /\ \A i \in DOMAIN events' :
                \/ events'[i] = [panels |-> stored', by |-> "other"]
                \/ \E j \in DOMAIN events : events[j] = events'[i] /\ events[j].by # "other"
          /\ \A j \in DOMAIN events : events[j].by # "other" =>
                \E i \in DOMAIN events' : events'[i] = events[j]
      BY <1>1, <1>2, <3>1, PushedFacts
    <3> QED
      BY <3>2 DEF Own
  <2> QED
    BY <2>1, <2>2
<1>4. SyncTypes'
  BY <1>1, <1>3 DEF SyncTypes
<1>5. ServerKnown'
  BY <1>1, <1>3 DEF ServerKnown, Ending
<1>6. ShownKnown'
  <2>1. OwnOnTheWay' <=> OwnOnTheWay
    BY <1>3 DEF OwnOnTheWay, Own
  <2>2. (\A i \in DOMAIN events : Own(events[i]) => events[i].panels = root)
        => \A i \in DOMAIN events' : Own(events'[i]) => events'[i].panels = root
    BY <1>3
  <2>3. Ending(applying)' = Ending(applying) /\ Ending(puts)' = Ending(puts)
    BY <1>1 DEF Ending
  <2> QED
    BY <1>1, <2>1, <2>2, <2>3 DEF ShownKnown, Own
<1>7. OnlyMine'
  BY <1>1, NotMine DEF OnlyMine
<1> QED
  BY <1>4, <1>5, <1>6, <1>7

\* An event tells the browser of panels; those put by others wait for the pages to close.
LEMMA EventSync ==
  ASSUME Synced, S!Event, ~excused'
  PROVE  Synced'
<1> USE DEF Synced, S!get
<1>1. /\ events \in Seq(EventType) /\ events # <<>> /\ applying = <<>> /\ asked # "answered"
  BY DEF S!Event, SyncTypes
<1> DEFINE first == Head(events)
           own == first.by = "me"
<1>2. /\ events' = Tail(events) /\ known' = first.panels
      /\ applying' = IF own THEN applying ELSE Append(applying, first.panels)
      /\ UNCHANGED <<stored, root, pending, puts, asked, answer, connected, edits>>
  BY DEF S!Event, S!Update
<1>3. /\ Tail(events) \in Seq(EventType) /\ first \in EventType
      /\ Tail(events) # <<>> => Ending(Tail(events)) = Ending(events)
      /\ Tail(events) = <<>> => first = Ending(events)
      /\ 1 \in DOMAIN events /\ events[1] = first
      /\ \A i \in DOMAIN Tail(events) : \E j \in DOMAIN events : Tail(events)[i] = events[j]
      /\ \A j \in DOMAIN events : events[j] = first \/ \E i \in DOMAIN Tail(events) : Tail(events)[i] = events[j]
  BY <1>1, EndingOfTail
<1>4. Ending(events).panels = stored
  BY <1>1 DEF ServerKnown
<1> HIDE DEF first
<1>5. first.panels \in SUBSET S!Edit
  BY <1>3 DEF EventType
<1>6. /\ Append(applying, first.panels) \in Seq(SUBSET S!Edit)
      /\ Append(applying, first.panels) # <<>>
      /\ Ending(Append(applying, first.panels)) = first.panels
  BY <1>5, EndingOfAppend DEF SyncTypes
<1>7. SyncTypes'
  BY <1>2, <1>3, <1>5, <1>6 DEF SyncTypes
<1>8. ServerKnown'
  <2>1. Ending(events)' = Ending(events')
    BY DEF Ending
  <2> QED
    BY <1>1, <1>2, <1>3, <1>4, <2>1 DEF ServerKnown
<1>9. ShownKnown'
  <2>1. Ending(applying)' = Ending(applying') /\ Ending(puts)' = Ending(puts)
    BY <1>2 DEF Ending
  <2>2. CASE ~own
    BY <1>2, <1>6, <2>1, <2>2 DEF ShownKnown
  <2>3. CASE own
    <3>1. applying' = <<>> /\ OwnOnTheWay
      BY <1>1, <1>2, <1>3, <2>3 DEF OwnOnTheWay, Own
    <3>2. ASSUME ~pending, puts = <<>>
          PROVE  /\ first.panels = root
                 /\ \A i \in DOMAIN Tail(events) : Own(Tail(events)[i]) => Tail(events)[i].panels = root
      BY <1>1, <1>3, <2>3, <3>1, <3>2 DEF ShownKnown, Own
    <3>3. ASSUME ~pending, puts # <<>> PROVE Ending(puts) = root
      BY <1>1, <3>3 DEF ShownKnown
    <3> QED
      BY <1>2, <2>1, <3>1, <3>2, <3>3 DEF ShownKnown, Own
  <2> QED
    BY <2>2, <2>3
<1>10. OnlyMine'
  <2> SUFFICES ASSUME edits \subseteq Mine
               PROVE  /\ applying' = <<>> /\ \A i \in DOMAIN Tail(events) : Own(Tail(events)[i])
                      /\ Tail(events) = <<>> => first.panels = stored
                      /\ edits \subseteq root
    BY <1>2 DEF OnlyMine, Own
  <2>1. \A j \in DOMAIN events : Own(events[j])
    BY DEF OnlyMine
  <2> QED
    BY <1>1, <1>2, <1>3, <1>4, <2>1 DEF OnlyMine, Own
<1> QED
  BY <1>7, <1>8, <1>9, <1>10

\* What waited is shown: it is not applied over panels that are on their way.
LEMMA ApplySync ==
  ASSUME Synced, S!Apply, ~excused'
  PROVE  Synced'
<1> USE DEF Synced, S!server, S!get
<1>1. /\ applying \in Seq(SUBSET S!Edit) /\ applying # <<>> /\ puts = <<>> /\ ~OwnOnTheWay
      /\ applying' = Tail(applying) /\ root' = Head(applying)
      /\ UNCHANGED <<stored, events, known, pending, puts, asked, answer, connected, edits>>
  BY DEF S!Apply, S!OnTheirWay, OwnOnTheWay, Own, SyncTypes
<1>2. /\ Tail(applying) \in Seq(SUBSET S!Edit) /\ Head(applying) \in SUBSET S!Edit
      /\ Tail(applying) # <<>> => Ending(Tail(applying)) = Ending(applying)
      /\ Tail(applying) = <<>> => Head(applying) = Ending(applying)
  BY <1>1, EndingOfTail
<1>3. SyncTypes'
  BY <1>1, <1>2 DEF SyncTypes
<1>4. ServerKnown'
  BY <1>1 DEF ServerKnown, Ending
<1>5. ShownKnown'
  <2>1. Ending(applying)' = Ending(applying') /\ Ending(puts)' = Ending(puts) /\ ~OwnOnTheWay'
    BY <1>1 DEF Ending, OwnOnTheWay, Own
  <2> QED
    BY <1>1, <1>2, <2>1 DEF ShownKnown
<1>6. OnlyMine'
  BY <1>1 DEF OnlyMine
<1> QED
  BY <1>3, <1>4, <1>5, <1>6

\* The answer of a GET: no panels are on their way when it is taken.
LEMMA AnsweredSync ==
  ASSUME Synced, S!Answered, ~excused'
  PROVE  Synced'
<1> USE DEF Synced, S!server
<1>1. /\ puts = <<>> /\ ~OwnOnTheWay /\ asked = "answered" /\ asked' = "no" /\ answer' = {}
      /\ UNCHANGED <<stored, events, root, pending, puts, connected, edits>>
      /\ answer \in SUBSET S!Edit /\ applying \in Seq(SUBSET S!Edit)
  BY DEF S!Answered, S!OnTheirWay, OwnOnTheWay, Own, SyncTypes
<1>2. known' = answer
  BY DEF S!Answered, S!Update
<1>3. events = <<>> => answer = stored
  BY <1>1 DEF ServerKnown
<1>4. ServerKnown'
  BY <1>1, <1>2, <1>3 DEF ServerKnown, Ending
<1>5. CASE answer # known
  <2>1. applying' = Append(applying, answer)
    BY <1>5 DEF S!Answered, S!Update
  <2>2. applying' \in Seq(SUBSET S!Edit) /\ applying' # <<>> /\ Ending(applying') = answer
    BY <1>1, <2>1, EndingOfAppend
  <2>3. SyncTypes'
    BY <1>1, <1>2, <2>2 DEF SyncTypes
  <2>4. ShownKnown'
    <3>1. Ending(applying)' = Ending(applying')
      BY DEF Ending
    <3> QED
      BY <1>2, <2>2, <3>1 DEF ShownKnown
  <2>5. OnlyMine'
    <3> SUFFICES ASSUME edits \subseteq Mine PROVE FALSE
      BY <1>1 DEF OnlyMine
    <3>1. events = <<>>
      <4>1. DOMAIN events = {}
        BY <1>1 DEF OnlyMine, OwnOnTheWay
      <4>2. DOMAIN events = 1..Len(events) /\ Len(events) \in Nat
        BY LenProperties DEF SyncTypes
      <4>3. Len(events) = 0
        BY <4>1, <4>2
      <4> QED
        BY <4>3, EmptySeq DEF SyncTypes
    <3> QED
      BY <1>3, <1>5, <3>1 DEF OnlyMine
  <2> QED
    BY <1>4, <2>3, <2>4, <2>5
<1>6. CASE answer = known
  <2>1. known' = known /\ applying' = applying
    BY <1>6 DEF S!Answered
  <2>2. SyncTypes' /\ ShownKnown' /\ OnlyMine'
    BY <1>1, <2>1 DEF SyncTypes, ShownKnown, OnlyMine, OwnOnTheWay, Own, Ending
  <2> QED
    BY <1>4, <2>2
<1> QED
  BY <1>5, <1>6

\* A session that is lost takes no panels with it, and the panels are asked for after it.
LEMMA ConnectionSync ==
  ASSUME Synced, S!Disconnect \/ S!Reconnect, ~excused'
  PROVE  Synced'
<1> USE DEF Synced, S!server, S!browser
<1>1. CASE S!Disconnect
  <2>1. /\ puts = <<>> /\ ~OwnOnTheWay /\ puts' = <<>> /\ events' = <<>> /\ asked' = "no"
        /\ answer' = {} /\ connected' = FALSE
        /\ UNCHANGED <<stored, known, root, pending, applying, edits>>
    BY <1>1 DEF S!Disconnect, S!OnTheirWay, OwnOnTheWay, Own
  <2>2. SyncTypes'
    BY <2>1, EmptySeq DEF SyncTypes
  <2>3. ServerKnown' /\ ~OwnOnTheWay'
    BY <2>1 DEF ServerKnown, OwnOnTheWay
  <2>4. ShownKnown'
    <3>1. Ending(applying)' = Ending(applying)
      BY <2>1 DEF Ending
    <3> QED
      BY <2>1, <2>3, <3>1 DEF ShownKnown
  <2>5. OnlyMine'
    <3>1. ASSUME edits \subseteq Mine PROVE events = <<>>
      <4>1. DOMAIN events = {}
        BY <2>1, <3>1 DEF OnlyMine, OwnOnTheWay
      <4>2. DOMAIN events = 1..Len(events) /\ Len(events) \in Nat
        BY LenProperties DEF SyncTypes
      <4>3. Len(events) = 0
        BY <4>1, <4>2
      <4> QED
        BY <4>3, EmptySeq DEF SyncTypes
    <3> QED
      BY <2>1, <3>1 DEF OnlyMine
  <2> QED
    BY <2>2, <2>3, <2>4, <2>5
<1>2. CASE S!Reconnect
  <2>1. /\ asked' = "asked" /\ connected' = TRUE
        /\ UNCHANGED <<stored, events, known, root, pending, applying, puts, answer, edits>>
    BY <1>2 DEF S!Reconnect
  <2> QED
    BY <2>1 DEF SyncTypes, ServerKnown, ShownKnown, OnlyMine, OwnOnTheWay, Own, Ending
<1> QED
  BY <1>1, <1>2

LEMMA AskSync ==
  ASSUME Synced, S!Expires \/ S!Reload \/ S!Answer \/ UNCHANGED S!vars
  PROVE  Synced'
<1>1. /\ UNCHANGED <<stored, events, known, root, pending, applying, puts, connected, edits>>
      /\ \/ UNCHANGED <<asked, answer>>
         \/ asked = "no" /\ asked' = "asked" /\ answer' = answer
         \/ asked = "asked" /\ asked' = "answered" /\ answer' = stored
  BY DEF S!Expires, S!Reload, S!Answer, S!vars, S!server, S!browser, S!get
<1>2. ServerKnown'
  BY <1>1 DEF Synced, ServerKnown, Ending
<1> QED
  BY <1>1, <1>2 DEF Synced, SyncTypes, ShownKnown, OnlyMine, OwnOnTheWay, Own, Ending

LEMMA SyncStepHolds == SyncInv /\ [S!Next]_S!vars => SyncInv'
<1> SUFFICES ASSUME Synced, ~excused, [S!Next]_S!vars, ~excused' PROVE Synced'
  <2>1. ASSUME excused, [S!Next]_S!vars PROVE excused'
    BY <2>1 DEF S!Next, S!vars, S!EditHere, S!Save, S!Stored, S!PutFails, S!EditElsewhere, S!Restore,
       S!Expires, S!Event, S!Apply, S!Reload, S!Answer, S!Answered, S!AnswerFails, S!Disconnect,
       S!Reconnect
  <2> QED
    BY <2>1 DEF SyncInv
<1>1. CASE \E e \in Mine : S!EditHere(e)
  BY <1>1, EditHereSync
<1>2. CASE S!Save
  BY <1>2, SaveSync
<1>3. CASE \E i \in DOMAIN puts : S!Stored(i)
  BY <1>3, StoredSync
<1>4. CASE (\E i \in DOMAIN puts : S!PutFails(i)) \/ S!AnswerFails
  BY <1>4 DEF S!PutFails, S!AnswerFails
<1>5. CASE \E e \in Theirs : (\E base \in {stored, {Old}} : S!EditElsewhere(e, base)) \/ S!Restore(e)
  BY <1>5, ElsewhereSync
<1>6. CASE S!Event \/ S!Apply \/ S!Answered
  BY <1>6, EventSync, ApplySync, AnsweredSync
<1>7. CASE S!Disconnect \/ S!Reconnect
  BY <1>7, ConnectionSync
<1>8. CASE S!Expires \/ S!Reload \/ S!Answer \/ UNCHANGED S!vars
  BY <1>8, AskSync
<1> QED
  BY <1>1, <1>2, <1>3, <1>4, <1>5, <1>6, <1>7, <1>8, Zenon DEF S!Next

\* Whatever crosses on the way, for any number of edits, reloads and sessions lost: when nothing
\* is under way the panels shown are those on the server, and the user's edits are shown as long
\* as nobody else edits; unless a request failed or came late, an event was not told, or panels of
\* the server crossed others (savePanels(), _handleDashboardUpdate(), _reloadPanelConfig()).
THEOREM DashboardCorrect == S!Spec => []DashboardFollows
<1>1. S!Init => SyncInv
  BY SyncInit
<1>2. SyncInv /\ [S!Next]_S!vars => SyncInv'
  BY SyncStepHolds
<1>3. SyncInv => DashboardFollows
  <2> SUFFICES ASSUME Synced PROVE S!ShownAsStored /\ S!EditsKept
    BY DEF SyncInv, DashboardFollows, S!DashboardFollows, S!ShownAsStored, S!EditsKept
  <2>1. ASSUME S!Quiet PROVE known = stored /\ root = known
    <3>1. events = <<>> /\ ~OwnOnTheWay
      BY <2>1 DEF S!Quiet, OwnOnTheWay
    <3> QED
      BY <2>1, <3>1 DEF S!Quiet, Synced, ServerKnown, ShownKnown
  <2>2. edits \subseteq Mine => edits \subseteq root
    BY DEF Synced, OnlyMine
  <2> QED
    BY <2>1, <2>2 DEF S!ShownAsStored, S!EditsKept
<1> QED
  BY <1>1, <1>2, <1>3, PTL DEF S!Spec

(* ------------------------- the form of a widget --------------------------- *)

\* The widget has a list of entries, an analog one as many as it has ticks.
FormTypes ==
    /\ \E n \in 0..MaxEntries :
          /\ DOMAIN entries = 1..n /\ entries = [i \in 1..n |-> entries[i]]
          /\ kind = "Analog" /\ n # 0 => ticks = n
    /\ ticks \in 0..MaxEntries
    /\ fields \in 0..MaxEntries /\ count \in 0..fields /\ on \in BOOLEAN

\* The fields of an open form hold what was meant, also those that are hidden.
FieldsHold ==
    /\ \A i \in 1..fields : entry[i] = meant[i]
    /\ kind \notin C!Toggled => on = TRUE
    /\ visible = C!Shown(fields, count, on)

\* What is valid is what the widget has.
WidgetHas ==
    (\A i \in visible : C!Filled(entry[i])) =>
        entries = IF on THEN [i \in 1..count |-> entry[i]] ELSE <<>>

FormInv == FormTypes /\ (kind # "Text" /\ open => FieldsHold /\ WidgetHas)

\* The empty sequence is the function on no number.
LEMMA NoEntries ==
  /\ <<>> = [i \in 1..0 |-> i] /\ DOMAIN <<>> = {} /\ 1..0 = {}
  /\ \A f, n : n \in Nat /\ f = [i \in 1..n |-> f[i]] => (f = <<>> <=> n = 0)
<1>1. <<>> = [i \in 1..0 |-> i] /\ DOMAIN <<>> = {} /\ 1..0 = {}
  OBVIOUS
<1>2. ASSUME NEW f, NEW n \in Nat, f = [i \in 1..n |-> f[i]] PROVE f = <<>> <=> n = 0
  <2>1. DOMAIN f = 1..n
    BY <1>2
  <2>2. CASE n = 0
    BY <1>1, <1>2, <2>2
  <2>3. CASE n # 0
    <3>1. 1 \in DOMAIN f
      BY <2>1, <2>3
    <3> QED
      BY <1>1, <2>3, <3>1
  <2> QED
    BY <2>2, <2>3
<1> QED
  BY <1>1, <1>2

\* What the invariant says.
LEMMA FormKeeps ==
  ASSUME FormInv PROVE EntriesKept
<1>1. SUFFICES ASSUME kind # "Text", open PROVE C!Kept
  BY DEF EntriesKept, C!EntriesKept
<1>2. FieldsHold /\ WidgetHas /\ FormTypes
  BY <1>1 DEF FormInv
<1>3. count \in Nat /\ fields \in Nat /\ count <= fields /\ on \in BOOLEAN
  BY <1>2, DashboardAssumption DEF FormTypes
<1>4. visible = IF on THEN 1..count ELSE {}
  BY <1>2, <1>3 DEF FieldsHold, C!Shown, C!Toggled
<1>5. \A i \in visible : entry[i] = meant[i]
  BY <1>2, <1>3, <1>4 DEF FieldsHold
<1>6. ASSUME \A i \in visible : C!Filled(entry[i])
      PROVE  /\ (entries = <<>>) = (visible = {})
             /\ \A i \in DOMAIN entries : i \in visible /\ entries[i] = meant[i]
  <2>1. entries = IF on THEN [i \in 1..count |-> entry[i]] ELSE <<>>
    BY <1>2, <1>6 DEF WidgetHas
  <2>2. CASE on
    <3>1. entries = [i \in 1..count |-> entry[i]]
      BY <2>1, <2>2
    <3>2. entries = [i \in 1..count |-> entries[i]] /\ DOMAIN entries = 1..count
      BY <3>1
    <3>3. entries = <<>> <=> count = 0
      BY <1>3, <3>2, NoEntries
    <3>4. visible = 1..count
      BY <1>4, <2>2
    <3>5. visible = {} <=> count = 0
      BY <1>3, <3>4
    <3> QED
      BY <3>1, <3>2, <3>3, <3>4, <3>5, <1>5
  <2>3. CASE ~on
    BY <2>1, <2>3, <1>4, NoEntries
  <2> QED
    BY <2>2, <2>3
<1> QED
  BY <1>5, <1>6 DEF C!Kept

\* What is valid goes to the widget, the entries counted.
LEMMA SavedIs ==
  ASSUME FormTypes, NEW type, C!Save(type), kind' = kind,
         fields' \in 0..MaxEntries, count' \in 0..fields', on' \in BOOLEAN
  PROVE  FormTypes' /\ WidgetHas'
<1>1. MaxEntries \in Nat
  BY DashboardAssumption
<1> DEFINE w == IF on' THEN [i \in 1..count' |-> entry'[i]] ELSE <<>>
           n == IF on' THEN count' ELSE 0
<1>2. n \in 0..MaxEntries /\ DOMAIN w = 1..n /\ w = [i \in 1..n |-> w[i]]
  <2>1. CASE on'
    BY <1>1, <2>1
  <2>2. CASE ~on'
    BY <1>1, <2>2, NoEntries
  <2> QED
    BY <2>1, <2>2
<1>3. CASE C!Valid
  <2>1. entries' = w /\ ticks' = IF kind = "Analog" THEN count' ELSE ticks
    BY <1>3 DEF C!Save, C!ToWidget
  <2>2. n # 0 => n = count'
    OBVIOUS
  <2> HIDE DEF w, n
  <2>3. ticks' \in 0..MaxEntries /\ (kind' = "Analog" /\ n # 0 => ticks' = n)
    BY <1>1, <2>1, <2>2 DEF FormTypes
  <2>4. FormTypes'
    BY <1>2, <2>1, <2>3 DEF FormTypes
  <2>5. WidgetHas'
    BY <2>1 DEF WidgetHas, w
  <2> QED
    BY <2>4, <2>5
<1>4. CASE ~C!Valid
  <2>1. UNCHANGED <<entries, ticks>>
    BY <1>4 DEF C!Save, C!widget
  <2>2. FormTypes'
    BY <2>1 DEF FormTypes
  <2>3. ~(\A i \in visible' : C!Filled(entry'[i]))
    BY <1>4 DEF C!Valid
  <2>4. ~(\A i \in visible : C!Filled(entry[i]))'
    BY <2>3 DEF C!Filled
  <2> QED
    BY <2>2, <2>4 DEF WidgetHas
<1> QED
  BY <1>3, <1>4

\* Fields that are there are kept, unless those of a sequence are made for another type.
LEMMA FieldsAre ==
  ASSUME FormTypes, NEW n \in 0..MaxEntries, NEW checked, NEW type, C!UpdateFields(n, checked, type)
  PROVE  /\ fields' \in 0..MaxEntries /\ n \in 0..fields'
         /\ visible' = C!Shown(fields', n, checked)
         /\ ~(kind = "Sequence" /\ type # ftype) =>
               fields <= fields' /\ \A i \in 1..fields : entry'[i] = entry[i]
<1> DEFINE before == IF kind = "Sequence" /\ type # ftype THEN 0 ELSE fields
<1>1. /\ fields' = IF n > before THEN n ELSE before
      /\ entry' = [i \in 1..MaxEntries |-> IF i <= before THEN entry[i]
                                           ELSE IF i <= fields' THEN C!EmptyEntry(type) ELSE None]
      /\ visible' = C!Shown(fields', n, checked)
  BY DEF C!UpdateFields, C!FieldsFor, C!Index
<1>2. MaxEntries \in Nat /\ fields \in 0..MaxEntries /\ before \in 0..fields
  BY DashboardAssumption DEF FormTypes
<1>3. fields' \in 0..MaxEntries /\ n \in 0..fields' /\ before <= fields'
  <2> HIDE DEF before
  <2> QED
    BY <1>1, <1>2
<1>4. ASSUME before = fields, NEW i \in 1..fields PROVE entry'[i] = entry[i]
  <2> HIDE DEF before
  <2>1. i \in 1..MaxEntries /\ i <= before
    BY <1>2, <1>4
  <2> QED
    BY <1>1, <2>1
<1> QED
  BY <1>1, <1>3, <1>4

LEMMA OpenHolds ==
  ASSUME FormInv, C!Open PROVE FormInv'
<1>1. MaxEntries \in Nat /\ FormTypes
  BY DashboardAssumption DEF FormInv
<1>2. /\ UNCHANGED <<kind, entries, ticks>> /\ count' \in C!Counts
      /\ on' = (kind \notin C!Toggled \/ entries # <<>>)
      /\ fields' = count' /\ visible' = C!Shown(fields', count', on')
      /\ entry' = [i \in 1..MaxEntries |-> IF i <= fields' /\ i \in DOMAIN entries THEN entries[i] ELSE None]
      /\ meant' = [i \in 1..MaxEntries |-> IF i \in DOMAIN entries THEN entries[i] ELSE None]
  BY DEF C!Open, C!Index, C!widget
<1>3. PICK n \in 0..MaxEntries : /\ DOMAIN entries = 1..n /\ entries = [i \in 1..n |-> entries[i]]
                                 /\ kind = "Analog" /\ n # 0 => ticks = n
  BY <1>1 DEF FormTypes
<1>4. Len(entries) = n /\ (entries = <<>> <=> n = 0)
  BY <1>1, <1>3, NoEntries
<1>5. count' = (IF kind = "Analog" THEN ticks ELSE n) \/ kind = "Text"
  BY <1>2, <1>4 DEF C!Counts
<1>6. count' \in 0..MaxEntries
  <2>1. CASE kind = "Text"
    <3>1. 2 \in 0..MaxEntries
      BY DashboardAssumption
    <3> QED
      BY <1>2, <1>1, <2>1, <3>1 DEF C!Counts
  <2>2. CASE kind # "Text"
    BY <1>1, <1>5, <2>2 DEF FormTypes
  <2> QED
    BY <2>1, <2>2
<1>7. on' \in BOOLEAN /\ fields' \in 0..MaxEntries /\ count' \in 0..fields'
  BY <1>1, <1>2, <1>6
<1>8. FormTypes'
  BY <1>1, <1>2, <1>3, <1>7 DEF FormTypes
<1>9. ASSUME kind # "Text" PROVE FieldsHold' /\ WidgetHas'
  <2>1. FieldsHold'
    <3>1. \A i \in 1..fields' : entry'[i] = meant'[i]
      BY <1>1, <1>2, <1>7
    <3>2. kind' \notin C!Toggled => on' = TRUE
      BY <1>2, <1>7
    <3>3. (visible = C!Shown(fields, count, on))'
      BY <1>2 DEF C!Shown, C!Toggled
    <3> QED
      BY <3>1, <3>2, <3>3 DEF FieldsHold, C!Toggled
  <2>2. entries' = IF on' THEN [i \in 1..count' |-> entry'[i]] ELSE <<>>
    <3>1. CASE on'
      <4>1. count' = n
        BY <1>2, <1>3, <1>4, <1>5, <1>9, <3>1 DEF C!Toggled
      <4>2. [i \in 1..count' |-> entry'[i]] = [i \in 1..n |-> entries[i]]
        BY <1>1, <1>2, <1>3, <4>1
      <4> QED
        BY <1>2, <1>3, <3>1, <4>2
    <3>2. CASE ~on'
      BY <1>2, <3>2
    <3> QED
      BY <3>1, <3>2
  <2> QED
    BY <2>1, <2>2 DEF WidgetHas
<1> QED
  BY <1>2, <1>8, <1>9 DEF FormInv

\* What changes the fields keeps what was meant.
LEMMA ChangeHolds ==
  ASSUME FormInv, kind' = kind, open, NEW type, C!Save(type),
         fields' \in 0..MaxEntries, count' \in 0..fields', on' \in BOOLEAN,
         kind \in C!Toggled \/ on' = on,
         kind # "Text" /\ FieldsHold => /\ \A i \in 1..fields' : entry'[i] = meant'[i]
                                        /\ visible' = C!Shown(fields', count', on')
  PROVE  FormInv'
<1>1. FormTypes' /\ WidgetHas'
  BY SavedIs DEF FormInv
<1>2. ASSUME kind # "Text" PROVE FieldsHold'
  <2>1. FieldsHold
    BY <1>2 DEF FormInv
  <2>2. (visible = C!Shown(fields, count, on))'
    BY <1>2, <2>1 DEF C!Shown, C!Toggled
  <2>3. kind' \notin C!Toggled => on' = TRUE
    BY <2>1 DEF FieldsHold
  <2> QED
    BY <1>2, <2>1, <2>2, <2>3 DEF FieldsHold, C!Toggled
<1> QED
  BY <1>1, <1>2 DEF FormInv

\* Each entry has a place for what its fields hold and for what was meant.
FieldsThere == DOMAIN entry = C!Index /\ DOMAIN meant = C!Index

LEMMA FieldsStayThere ==
  ASSUME FieldsThere, [C!Next]_C!vars PROVE FieldsThere'
<1>1. ASSUME NEW n, NEW checked, NEW type, C!UpdateFields(n, checked, type) PROVE DOMAIN entry' = C!Index
  BY <1>1 DEF C!UpdateFields
<1>2. ASSUME NEW i \in C!Index, NEW e, C!Given(i, e) PROVE FieldsThere'
  BY <1>2 DEF C!Given, FieldsThere
<1>3. ASSUME NEW n \in 0..MaxEntries, C!SetCount(n) PROVE FieldsThere'
  BY <1>1, <1>3 DEF C!SetCount, FieldsThere
<1>4. ASSUME NEW type, C!SetPort(type) PROVE FieldsThere'
  BY <1>1, <1>4 DEF C!SetPort, FieldsThere
<1>5. CASE C!Toggle
  BY <1>1, <1>5 DEF C!Toggle, FieldsThere
<1>6. ASSUME NEW i \in C!Index, NEW c, C!SetEntry(i, c) \/ C!PickPort(i, c) \/ C!SetLabel(i, c)
      PROVE  FieldsThere'
  BY <1>2, <1>6 DEF C!SetEntry, C!PickPort, C!SetLabel
<1>7. CASE C!Open
  BY <1>7 DEF C!Open, FieldsThere
<1>8. CASE UNCHANGED <<entry, meant>>
  BY <1>8 DEF FieldsThere
<1>9. C!Close \/ (\E rep, ever, t : C!SetRepeat(rep, ever, t)) \/ UNCHANGED C!vars => UNCHANGED <<entry, meant>>
  BY DEF C!Close, C!SetRepeat, C!vars
<1> QED
  BY <1>3, <1>4, <1>5, <1>6, <1>7, <1>8, <1>9 DEF C!Next

LEMMA FormStepHolds ==
  ASSUME FormInv, FieldsThere, [C!Next]_C!vars PROVE FormInv'
<1>1. MaxEntries \in Nat /\ FormTypes /\ (kind # "Text" /\ open => FieldsHold)
  BY DashboardAssumption DEF FormInv
<1>2. CASE C!Open
  BY <1>2, OpenHolds
<1>3. CASE C!Close
  <2>1. UNCHANGED <<entries, kind, ticks, fields, count, on>> /\ open' = FALSE
    BY <1>3 DEF C!Close, C!widget
  <2> QED
    BY <1>1, <2>1 DEF FormInv, FormTypes
<1>4. ASSUME NEW n \in 0..MaxEntries, C!SetCount(n) PROVE FormInv'
  <2> DEFINE type == IF kind = "Sequence" THEN ftype ELSE ptype
  <2>1. /\ open /\ kind' = kind /\ count' = n /\ on' = on /\ C!UpdateFields(n, on, type) /\ C!Save(type)
        /\ meant' = [i \in 1..MaxEntries |-> IF i <= n /\ i > fields THEN entry'[i] ELSE meant[i]]
    BY <1>4 DEF C!SetCount, C!Step, C!Index
  <2>2. ~(kind = "Sequence" /\ type # ftype)
    OBVIOUS
  <2> HIDE DEF type
  <2>3. /\ fields' \in 0..MaxEntries /\ n \in 0..fields'
        /\ visible' = C!Shown(fields', n, on)
        /\ fields <= fields' /\ \A i \in 1..fields : entry'[i] = entry[i]
    BY <1>1, <2>1, <2>2, FieldsAre
  <2>4. fields' = IF n > fields THEN n ELSE fields
    BY <2>1, <2>2 DEF C!UpdateFields, C!FieldsFor
  <2>5. ASSUME FieldsHold, NEW i \in 1..fields' PROVE entry'[i] = meant'[i]
    <3>1. fields \in Nat /\ fields' \in 0..MaxEntries /\ i \in 1..MaxEntries
      BY <1>1, <2>3, <2>5 DEF FormTypes
    <3>2. CASE i <= fields
      BY <2>1, <2>3, <2>5, <3>1, <3>2 DEF FieldsHold
    <3>3. CASE ~(i <= fields)
      BY <2>1, <2>4, <2>5, <3>1, <3>3
    <3> QED
      BY <3>2, <3>3
  <2>6. on' \in BOOLEAN
    BY <1>1, <2>1 DEF FormTypes
  <2> QED
    BY <2>1, <2>3, <2>5, <2>6, ChangeHolds
<1>5. CASE C!Toggle
  <2>1. /\ open /\ kind' = kind /\ kind \in C!Toggled /\ on' = ~on /\ count' = count /\ meant' = meant
        /\ C!UpdateFields(count, on', ptype) /\ C!Save(ptype)
    BY <1>5 DEF C!Toggle, C!Step
  <2>2. kind # "Sequence" /\ count \in 0..MaxEntries /\ count \in 0..fields
    BY <1>1, <2>1 DEF C!Toggled, FormTypes
  <2>3. /\ fields' \in 0..MaxEntries /\ count \in 0..fields'
        /\ visible' = C!Shown(fields', count, on')
    BY <1>1, <2>1, <2>2, FieldsAre
  <2>4. fields' = fields /\ \A i \in 1..fields : entry'[i] = entry[i]
    <3>1. fields' = IF count > fields THEN count ELSE fields
      BY <2>1, <2>2 DEF C!UpdateFields, C!FieldsFor
    <3>2. ~(count > fields)
      BY <1>1, <2>2 DEF FormTypes
    <3> QED
      BY <1>1, <2>1, <2>2, <3>1, <3>2, FieldsAre
  <2>5. on' \in BOOLEAN
    BY <2>1
  <2>6. FieldsHold => \A i \in 1..fields' : entry'[i] = meant'[i]
    BY <2>1, <2>4 DEF FieldsHold
  <2> QED
    BY <2>1, <2>3, <2>5, <2>6, ChangeHolds
<1>6. ASSUME NEW i \in C!Index, NEW e, C!Given(i, e) PROVE FormInv'
  <2>1. /\ open /\ kind' = kind /\ entry' = [entry EXCEPT ![i] = e] /\ meant' = [meant EXCEPT ![i] = e]
        /\ UNCHANGED <<fields, count, on, visible>>
    BY <1>6 DEF C!Given, C!Step
  <2>2. PICK type : C!Save(type)
    BY <1>6 DEF C!Given
  <2>3. fields' \in 0..MaxEntries /\ count' \in 0..fields' /\ on' \in BOOLEAN
    BY <1>1, <2>1 DEF FormTypes
  <2>4. ASSUME FieldsHold PROVE \A j \in 1..fields' : entry'[j] = meant'[j]
    BY <1>6, <2>1, <2>4 DEF FieldsHold, FieldsThere
  <2>5. FieldsHold => visible' = C!Shown(fields', count', on')
    BY <2>1 DEF FieldsHold
  <2> QED
    BY <2>1, <2>2, <2>3, <2>4, <2>5, ChangeHolds
<1>7. ASSUME NEW type, C!SetPort(type) PROVE FormInv'
  <2>1. /\ open /\ kind' = kind /\ count' = count /\ on' = on /\ meant' = entry'
        /\ C!UpdateFields(count, on, type) /\ C!Save(type)
    BY <1>7 DEF C!SetPort, C!Step
  <2>2. count \in 0..MaxEntries /\ on' \in BOOLEAN
    BY <1>1, <2>1 DEF FormTypes
  <2>3. /\ fields' \in 0..MaxEntries /\ count \in 0..fields'
        /\ visible' = C!Shown(fields', count, on)
    BY <1>1, <2>1, <2>2, FieldsAre
  <2> QED
    BY <2>1, <2>2, <2>3, ChangeHolds
<1>8. ASSUME NEW rep, NEW ever, NEW t, C!SetRepeat(rep, ever, t) PROVE FormInv'
  <2>1. /\ open /\ kind' = kind /\ UNCHANGED <<fields, entry, visible, count, on, meant>> /\ C!Save(ftype)
    BY <1>8 DEF C!SetRepeat, C!Step
  <2>2. fields' \in 0..MaxEntries /\ count' \in 0..fields' /\ on' \in BOOLEAN
    BY <1>1, <2>1 DEF FormTypes
  <2> QED
    BY <2>1, <2>2, ChangeHolds DEF FieldsHold
<1>9. CASE UNCHANGED C!vars
  <2>1. UNCHANGED <<kind, entries, ticks, open, fields, entry, count, on, visible, meant>>
    BY <1>9 DEF C!vars, C!widget
  <2> QED
    BY <2>1 DEF FormInv, FormTypes, FieldsHold, WidgetHas, C!Shown, C!Filled
<1>10. ASSUME NEW i \in C!Index, NEW c, C!SetEntry(i, c) \/ C!PickPort(i, c) \/ C!SetLabel(i, c)
       PROVE  FormInv'
  BY <1>6, <1>10 DEF C!SetEntry, C!PickPort, C!SetLabel
<1> QED
  BY <1>2, <1>3, <1>4, <1>5, <1>7, <1>8, <1>9, <1>10 DEF C!Next

LEMMA FormInit ==
  ASSUME C!Init PROVE FormInv /\ FieldsThere
<1>1. MaxEntries \in Nat /\ {1, 2} \subseteq 0..MaxEntries
  BY DashboardAssumption
<1>2. PICK n \in 0..MaxEntries : \E T : entries \in [1..n -> T]
  <2>1. CASE kind = "Pie" /\ entries = <<C!Slice(None, None)>>
    <3>1. entries \in [1..1 -> {C!Slice(None, None)}]
      BY <2>1
    <3> QED
      BY <1>1, <3>1
  <2>2. ASSUME NEW n \in 0..MaxEntries, NEW T, entries \in [1..n -> T] PROVE \E m \in 0..MaxEntries : \E U : entries \in [1..m -> U]
    BY <2>2
  <2>3. CASE kind = "Pie" /\ entries \in [1..2 -> {C!Slice(c, c) : c \in Content}]
    BY <1>1, <2>2, <2>3
  <2>4. CASE kind # "Pie"
    BY <2>2, <2>4 DEF C!Init
  <2> QED
    BY <2>1, <2>3, <2>4 DEF C!Init
<1>3. Len(entries) = n /\ DOMAIN entries = 1..n /\ entries = [i \in 1..n |-> entries[i]]
  BY <1>1, <1>2
<1>4. ticks = n /\ open = FALSE /\ fields = 0 /\ count = 0 /\ on = FALSE
  BY <1>3 DEF C!Init
<1>5. n \in 0..MaxEntries /\ count \in 0..fields /\ fields \in 0..MaxEntries /\ on \in BOOLEAN
  <2>1. 0 \in 0..0 /\ 0 \in 0..MaxEntries
    BY <1>1
  <2>2. on \in BOOLEAN
    BY <1>4
  <2> QED
    BY <1>4, <2>1, <2>2, Zenon
<1>6. FormTypes
  BY <1>3, <1>4, <1>5 DEF FormTypes
<1>7. FieldsThere
  BY DEF C!Init, FieldsThere
<1> QED
  BY <1>4, <1>6, <1>7 DEF FormInv

\* The form of a widget leaves the other entries as they were, for any number of entries and edits
\* (updateFromWidget(), _updateSeqFields(), toWidget()).
THEOREM EntriesCorrect == C!Spec => []EntriesKept
<1>1. C!Init => FormInv /\ FieldsThere
  BY FormInit
<1>2. FormInv /\ FieldsThere /\ [C!Next]_C!vars => (FormInv /\ FieldsThere)'
  BY FormStepHolds, FieldsStayThere
<1>3. FormInv => EntriesKept
  BY FormKeeps
<1> QED
  BY <1>1, <1>2, <1>3, PTL DEF C!Spec

(* -------------------------- a widget and its port ------------------------ *)

Event == [value : Int, up : BOOLEAN, update : BOOLEAN]
Call == [value : Int, stage : {"sent", "done", "lost"}]

ConfTypes ==
    /\ conf.kind \in W!Kind /\ {conf.boolean, conf.inverted, conf.ticksonly} \subseteq BOOLEAN
    /\ conf.kind = "OnOff" /\ ~conf.boolean => ~conf.inverted
    /\ conf.kind = "Slider" /\ conf.ticksonly => conf.snap = "strict"

WidgetTypes ==
    /\ value \in Int /\ up \in BOOLEAN /\ cached \in Int \cup {None}
    /\ news \in Seq(Event) /\ calls \in Seq(Call)

\* What a widget shows that drags and presses look at.
ShownTypes ==
    /\ conf.kind = "OnOff" => shown \in BOOLEAN
    /\ conf.kind = "Slider" => shown \in [pos : 0..W!Length, progress : BOOLEAN]

\* The newest event, or what the cache has, has the port's value.
Chained ==
    \A j \in 0..Len(news) :
        (\A m \in (j + 1)..Len(news) : news[m].update) =>
            (IF j = 0 THEN cached ELSE news[j].value) = value

\* What is shown is the value v, or what the handle points to rounds to it.
Agreed(v, x) ==
    \/ v = None
    \/ x = W!Changed(v, x)
    \/ conf.kind = "Slider" /\ ~conf.ticksonly /\ W!Round(x.pos) = v
AgreesWith(v) == Agreed(v, shown)

Later == \E j \in DOMAIN news : ~news[j].update
Sent(s, v) == \E i \in DOMAIN s : s[i].stage = "sent" /\ s[i].value = v

\* Until the next value comes, what is shown is what the cache has or what a request that has
\* not reached the server asks for.
ShowsIt ==
    conf.kind \in W!Shows /\ ~stray /\ ~Later =>
        \E v : (v = cached \/ Sent(calls, v)) /\ AgreesWith(v)

WidgetInv == ConfTypes /\ WidgetTypes /\ ShownTypes /\ Chained /\ ShowsIt

\* The positions of the ticks.
LEMMA TickFacts ==
  /\ DOMAIN W!Ticks = {1, 2, 3} /\ W!Length = 4 * Top /\ Top \in Nat /\ Top > 1
  /\ W!Ticks[1] = 0 /\ W!Ticks[2] = 1 /\ W!Ticks[3] = Top
  /\ \A i \in {1, 2, 3} : W!TickPos(i) \in 0..W!Length /\ (~conf.ticksonly => W!TickPos(i) = 4 * W!Ticks[i])
<1>1. Top \in Nat /\ Top > 1
  BY DashboardAssumption
<1>2. DOMAIN W!Ticks = {1, 2, 3} /\ W!Ticks[1] = 0 /\ W!Ticks[2] = 1 /\ W!Ticks[3] = Top /\ Len(W!Ticks) = 3
  BY <1>1 DEF W!Ticks
<1>3. /\ W!TickPos(1) = IF conf.ticksonly THEN 0 ELSE 0
      /\ W!TickPos(2) = IF conf.ticksonly THEN 2 * Top ELSE 4
      /\ W!TickPos(3) = IF conf.ticksonly THEN 4 * Top ELSE 4 * Top
  BY <1>1, <1>2 DEF W!TickPos, W!Length
<1> QED
  BY <1>1, <1>2, <1>3 DEF W!Length

LEMMA NearestFacts ==
  ASSUME NEW p \in Int PROVE W!Nearest(p) \in {1, 2, 3}
<1> DEFINE d(i) == W!Distance(W!TickPos(i), p)
           P(i) == \A j \in DOMAIN W!Ticks : d(i) < d(j) \/ (d(i) = d(j) /\ i <= j)
<1>1. d(1) \in Int /\ d(2) \in Int /\ d(3) \in Int
  BY TickFacts DEF W!Distance
<1>2. \E i \in DOMAIN W!Ticks : P(i)
  <2> HIDE DEF d
  <2>1. P(1) \/ P(2) \/ P(3)
    BY <1>1, TickFacts
  <2> QED
    BY <2>1, TickFacts
<1>3. W!Nearest(p) = CHOOSE i \in DOMAIN W!Ticks : P(i)
  BY DEF W!Nearest
<1> HIDE DEF P
<1> QED
  BY <1>2, <1>3, TickFacts

\* Where the handle may be.
LEMMA PosFacts ==
  /\ \A q \in Int : W!AnalogPos(q) \in 0..W!Length /\ (~conf.ticksonly => W!AnalogPos(q) = W!Clamp(q))
  /\ \A p \in 0..W!Length : W!DragPos(p) \in 0..W!Length /\ W!SnapValue(p) \in 0..W!Length
  /\ \A p \in 0..W!Length : conf.snap = "strict" => \E i \in {1, 2, 3} : W!SnapValue(p) = 4 * W!Ticks[i]
<1>1. ASSUME NEW q \in Int
      PROVE W!AnalogPos(q) \in 0..W!Length /\ (~conf.ticksonly => W!AnalogPos(q) = W!Clamp(q))
  <2>1. W!Clamp(q) \in 0..W!Length
    BY TickFacts DEF W!Clamp
  <2> DEFINE i == CHOOSE i \in DOMAIN W!Ticks : 4 * W!Ticks[i] = W!Clamp(q)
  <2>2. CASE \E j \in DOMAIN W!Ticks : 4 * W!Ticks[j] = W!Clamp(q)
    <3>1. i \in DOMAIN W!Ticks /\ 4 * W!Ticks[i] = W!Clamp(q)
      BY <2>2
    <3>2. W!AnalogPos(q) = W!TickPos(i)
      BY <2>2 DEF W!AnalogPos
    <3> HIDE DEF i
    <3> QED
      BY <3>1, <3>2, TickFacts
  <2>3. CASE ~ \E j \in DOMAIN W!Ticks : 4 * W!Ticks[j] = W!Clamp(q)
    BY <2>1, <2>3 DEF W!AnalogPos
  <2> QED
    BY <2>2, <2>3
<1>2. ASSUME NEW p \in 0..W!Length
      PROVE  /\ W!DragPos(p) \in 0..W!Length /\ W!SnapValue(p) \in 0..W!Length
             /\ conf.snap = "strict" => \E i \in {1, 2, 3} : W!SnapValue(p) = 4 * W!Ticks[i]
  <2>1. W!Nearest(p) \in {1, 2, 3}
    BY NearestFacts, TickFacts
  <2>2. 4 * W!Ticks[W!Nearest(p)] \in 0..W!Length /\ W!TickPos(W!Nearest(p)) \in 0..W!Length
    BY <2>1, TickFacts
  <2> QED
    BY <2>1, <2>2 DEF W!DragPos, W!SnapValue, W!PosToValue
<1> QED
  BY <1>1, <1>2

\* What a widget may show.
Showable(x) ==
    /\ conf.kind = "OnOff" => x \in BOOLEAN
    /\ conf.kind = "Slider" => x \in [pos : 0..W!Length, progress : BOOLEAN]

\* What a value looks like does not depend on what was shown before, but for a null.
LEMMA FaceAgrees ==
  ASSUME ConfTypes, NEW v, NEW old
  PROVE  Agreed(v, W!Changed(v, old)) /\ Agreed(v, W!Current(v, old))
<1>1. SUFFICES ASSUME v # None PROVE Agreed(v, W!Face(v, old))
  BY DEF Agreed, W!Changed, W!Current
<1>2. W!Changed(v, W!Face(v, old)) = W!Face(v, W!Face(v, old))
  BY <1>1 DEF W!Changed
<1>3. W!Face(v, W!Face(v, old)) = W!Face(v, old)
  <2>1. CASE conf.kind = "OnOff"
    BY <2>1 DEF W!Face, W!Is, W!OnOffShown
  <2>2. CASE conf.kind # "OnOff"
    BY <2>2 DEF W!Face, W!Is
  <2> QED
    BY <2>1, <2>2
<1> QED
  BY <1>2, <1>3 DEF Agreed

LEMMA FaceShowable ==
  ASSUME ConfTypes, NEW v \in Int \cup {None}, NEW old, Showable(old)
  PROVE  Showable(W!Changed(v, old)) /\ Showable(W!Current(v, old))
<1>1. CASE conf.kind = "OnOff"
  <2>1. W!OnOffShown(v, old) \in BOOLEAN
    BY <1>1 DEF W!OnOffShown, W!Truth, Showable
  <2>2. W!Face(v, old) = W!OnOffShown(v, old)
    BY <1>1 DEF W!Face, W!Is
  <2> QED
    BY <1>1, <2>1, <2>2 DEF Showable, W!Changed, W!Current, W!Is
<1>2. CASE conf.kind = "Slider"
  <2>1. v \in Int => W!SliderShown(v) \in [pos : 0..W!Length, progress : BOOLEAN]
    <3> SUFFICES ASSUME v \in Int PROVE W!SliderShown(v) \in [pos : 0..W!Length, progress : BOOLEAN]
      OBVIOUS
    <3>1. (conf.ticksonly /\ v < 0) \in BOOLEAN /\ -v \in Int /\ 0 \in 0..W!Length
      BY TickFacts
    <3>2. 4 * (IF conf.ticksonly /\ v < 0 THEN -v ELSE v) \in Int
      OBVIOUS
    <3> QED
      BY <3>1, <3>2, PosFacts DEF W!SliderShown
  <2>2. W!SliderShown(None) \in [pos : 0..W!Length, progress : BOOLEAN]
    BY TickFacts DEF W!SliderShown
  <2>3. W!Face(v, old) = W!SliderShown(v)
    BY <1>2 DEF W!Face, W!Is
  <2> QED
    BY <1>2, <2>1, <2>2, <2>3 DEF Showable, W!Changed, W!Current, W!Is
<1> QED
  BY <1>1, <1>2 DEF Showable

\* What agrees goes on to as long as the widget's configuration and what it shows stay.
LEMMA ConfStays ==
  ASSUME conf' = conf
  PROVE  /\ \A v : AgreesWith(v)' <=> Agreed(v, shown')
         /\ ShownTypes' <=> Showable(shown')
         /\ ConfTypes => ConfTypes'
<1>1. ASSUME NEW v PROVE AgreesWith(v)' <=> Agreed(v, shown')
  BY DEF AgreesWith, Agreed, W!Changed, W!Face, W!Is, W!OnOffShown, W!Truth, W!IndicatorShown,
         W!RadioShown, W!TextShown, W!SliderShown, W!AnalogPos, W!TickPos, W!Round, W!Clamp
<1>2. ShownTypes' <=> Showable(shown')
  BY DEF ShownTypes, Showable
<1>3. ConfTypes => ConfTypes'
  BY DEF ConfTypes
<1> QED
  BY <1>1, <1>2, <1>3

\* A call without the one that ended.
LEMMA CallRemoved ==
    ASSUME NEW s \in Seq(Call), NEW i \in 1..Len(s)
    PROVE  /\ W!RemoveAt(s, i) \in Seq(Call)
           /\ Len(W!RemoveAt(s, i)) = Len(s) - 1
           /\ \A j \in 1..(Len(s) - 1) :
                 W!RemoveAt(s, i)[j] = IF j < i THEN s[j] ELSE s[j + 1]
<1>. DEFINE u == SubSeq(s, 1, i - 1)
            v == SubSeq(s, i + 1, Len(s))
<1>1. Len(s) \in Nat /\ \A k \in 1..Len(s) : s[k] \in Call
  BY ElementOfSeq, LenProperties
<1>2. /\ u \in Seq(Call)
      /\ Len(u) = i - 1
      /\ \A k \in 1..(i - 1) : u[k] = s[k]
  <2>1. 1 \in Int /\ i - 1 \in Int /\ \A k \in 1..(i - 1) : s[k] \in Call
    BY <1>1
  <2>2. /\ u \in Seq(Call)
        /\ Len(u) = IF 1 <= i - 1 THEN i - 1 - 1 + 1 ELSE 0
        /\ \A k \in 1..(i - 1 - 1 + 1) : u[k] = s[1 + k - 1]
    BY <2>1, SubSeqProperties
  <2>. HIDE DEF u
  <2>. QED
    BY <1>1, <2>2
<1>3. /\ v \in Seq(Call)
      /\ Len(v) = Len(s) - i
      /\ \A k \in 1..(Len(s) - i) : v[k] = s[i + k]
  <2>1. i + 1 \in Int /\ Len(s) \in Int /\ \A k \in (i + 1)..Len(s) : s[k] \in Call
    BY <1>1
  <2>2. /\ v \in Seq(Call)
        /\ Len(v) = IF i + 1 <= Len(s) THEN Len(s) - (i + 1) + 1 ELSE 0
        /\ \A k \in 1..(Len(s) - (i + 1) + 1) : v[k] = s[(i + 1) + k - 1]
    BY <2>1, SubSeqProperties
  <2>. HIDE DEF v
  <2>3. /\ Len(s) - (i + 1) + 1 = Len(s) - i
        /\ \A k \in 1..(Len(s) - i) : (i + 1) + k - 1 = i + k
    BY <1>1
  <2>4. Len(v) = Len(s) - i
    <3>1. CASE i + 1 <= Len(s)
      BY <2>2, <2>3, <3>1, Zenon
    <3>2. CASE ~(i + 1 <= Len(s))
      <4>1. Len(s) - i = 0
        BY <1>1, <3>2
      <4>. QED
        BY <2>2, <3>2, <4>1, Zenon
    <3>. QED
      BY <3>1, <3>2
  <2>5. \A k \in 1..(Len(s) - i) : v[k] = s[i + k]
    BY <2>2, <2>3, Zenon
  <2>. QED
    BY <2>2, <2>4, <2>5
<1>. HIDE DEF u, v
<1>4. /\ u \o v \in Seq(Call)
      /\ Len(u \o v) = Len(s) - 1
      /\ \A j \in 1..(Len(s) - 1) :
            (u \o v)[j] = IF j <= i - 1 THEN u[j] ELSE v[j - (i - 1)]
  <2>1. /\ u \o v \in Seq(Call)
        /\ Len(u \o v) = Len(u) + Len(v)
        /\ \A j \in 1..(Len(u) + Len(v)) :
              (u \o v)[j] = IF j <= Len(u) THEN u[j] ELSE v[j - Len(u)]
    BY <1>2, <1>3, ConcatProperties
  <2>2. Len(u) + Len(v) = Len(s) - 1
    BY <1>1, <1>2, <1>3
  <2>. QED
    BY <1>2, <2>1, <2>2, Zenon
<1>5. \A j \in 1..(Len(s) - 1) : (u \o v)[j] = IF j < i THEN s[j] ELSE s[j + 1]
  <2>. TAKE j \in 1..(Len(s) - 1)
  <2>1. CASE j < i
    BY <1>1, <1>2, <1>4, <2>1
  <2>2. CASE j >= i
    <3>1. j - (i - 1) \in 1..(Len(s) - i) /\ i + (j - (i - 1)) = j + 1
      BY <1>1, <2>2
    <3>. QED
      BY <1>1, <1>3, <1>4, <2>2, <3>1
  <2>3. j < i \/ j >= i
    BY <1>1
  <2>. QED
    BY <2>1, <2>2, <2>3
<1>. QED
  BY <1>4, <1>5 DEF W!RemoveAt, u, v


LEMMA RemovedFacts ==
  ASSUME calls \in Seq(Call), NEW i \in DOMAIN calls
  PROVE  /\ W!RemoveAt(calls, i) \in Seq(Call)
         /\ \A v : calls[i].stage # "sent" /\ Sent(calls, v) => Sent(W!RemoveAt(calls, i), v)
<1>1. i \in 1..Len(calls) /\ DOMAIN calls = 1..Len(calls) /\ Len(calls) \in Nat
  OBVIOUS
<1> DEFINE r == W!RemoveAt(calls, i)
<1>2. /\ r \in Seq(Call) /\ Len(r) = Len(calls) - 1
      /\ \A j \in 1..(Len(calls) - 1) : r[j] = IF j < i THEN calls[j] ELSE calls[j + 1]
  BY <1>1, CallRemoved
<1> HIDE DEF r
<1>3. ASSUME NEW v, calls[i].stage # "sent", NEW j \in DOMAIN calls, calls[j].stage = "sent", calls[j].value = v
      PROVE  Sent(r, v)
  <2>1. j # i
    BY <1>3
  <2>2. DOMAIN r = 1..(Len(calls) - 1)
    BY <1>2
  <2>3. CASE j < i
    <3>1. j \in DOMAIN r /\ r[j] = calls[j]
      BY <1>1, <1>2, <2>2, <2>3
    <3> QED
      BY <1>3, <3>1 DEF Sent
  <2>4. CASE j > i
    <3>1. j - 1 \in DOMAIN r /\ r[j - 1] = calls[j]
      BY <1>1, <1>2, <2>2, <2>4
    <3> QED
      BY <1>3, <3>1 DEF Sent
  <2> QED
    BY <1>1, <2>1, <2>3, <2>4
<1> QED
  BY <1>2, <1>3 DEF r, Sent

\* A request is added to those under way.
LEMMA AskFacts ==
  ASSUME calls \in Seq(Call), NEW values \in Seq(Int), W!Ask(values)
  PROVE  /\ calls' \in Seq(Call)
         /\ \A v : Sent(calls, v) => Sent(calls', v)
         /\ values # <<>> => Sent(calls', values[Len(values)])
<1> DEFINE new == [i \in DOMAIN values |-> [value |-> values[i], stage |-> "sent"]]
<1>1. new \in Seq(Call) /\ Len(new) = Len(values) /\ DOMAIN values = 1..Len(values) /\ Len(values) \in Nat
  <2>1. DOMAIN values = 1..Len(values) /\ Len(values) \in Nat
    OBVIOUS
  <2>2. new \in [1..Len(values) -> Call]
    BY <2>1 DEF Call
  <2> HIDE DEF new
  <2>3. new \in Seq(Call) /\ Len(new) = Len(values)
    BY <2>1, <2>2
  <2> QED
    BY <2>1, <2>3
<1>2. \A i \in DOMAIN values : new[i].stage = "sent" /\ new[i].value = values[i]
  OBVIOUS
<1>3. calls' = calls \o new
  BY DEF W!Ask
<1> HIDE DEF new
<1>4. /\ calls' \in Seq(Call) /\ Len(calls') = Len(calls) + Len(new) /\ Len(calls) \in Nat
      /\ DOMAIN calls = 1..Len(calls) /\ DOMAIN calls' = 1..(Len(calls) + Len(new))
      /\ \A j \in DOMAIN calls : calls'[j] = calls[j]
      /\ \A j \in 1..Len(new) : calls'[Len(calls) + j] = new[j]
  <2>1. /\ calls' \in Seq(Call) /\ Len(calls') = Len(calls) + Len(new)
        /\ \A j \in 1..(Len(calls) + Len(new)) :
              calls'[j] = IF j <= Len(calls) THEN calls[j] ELSE new[j - Len(calls)]
    BY <1>1, <1>3, ConcatProperties
  <2>2. /\ Len(calls) \in Nat /\ Len(new) \in Nat
        /\ DOMAIN calls = 1..Len(calls) /\ DOMAIN calls' = 1..(Len(calls) + Len(new))
    BY <1>1, <2>1
  <2>3. ASSUME NEW j \in 1..Len(new) PROVE calls'[Len(calls) + j] = new[j]
    <3>1. Len(calls) + j \in 1..(Len(calls) + Len(new)) /\ ~(Len(calls) + j <= Len(calls))
          /\ (Len(calls) + j) - Len(calls) = j
      BY <2>2
    <3> QED
      BY <2>1, <3>1
  <2>4. \A j \in DOMAIN calls : calls'[j] = calls[j]
    BY <2>1, <2>2
  <2> QED
    BY <2>1, <2>2, <2>3, <2>4
<1>5. \A j \in DOMAIN calls : j \in DOMAIN calls'
  BY <1>1, <1>4
<1>6. ASSUME values # <<>> PROVE Sent(calls', values[Len(values)])
  <2>1. Len(values) \in DOMAIN values /\ Len(calls) + Len(values) \in DOMAIN calls'
    BY <1>1, <1>4, <1>6, EmptySeq
  <2>2. calls'[Len(calls) + Len(values)] = new[Len(values)]
    BY <1>1, <1>4, <2>1
  <2> QED
    BY <1>2, <2>1, <2>2 DEF Sent
<1> QED
  BY <1>4, <1>5, <1>6 DEF Sent

\* What the newest value event says is kept as long as none comes.
LEMMA ToldFacts ==
  ASSUME WidgetTypes, Chained, NEW v \in Int, NEW ok \in BOOLEAN, NEW update \in BOOLEAN,
         W!Tell(v, ok, update), cached' = cached, value' = v, update => v = value
  PROVE  /\ news' \in Seq(Event) /\ Chained'
         /\ ~update => Later'
         /\ Later => Later'
<1> DEFINE e == [value |-> v, up |-> ok, update |-> update]
<1>1. news \in Seq(Event) /\ e \in Event /\ news' = Append(news, e)
  BY DEF WidgetTypes, W!Tell, Event
<1>2. e.update = update /\ e.value = v
  OBVIOUS
<1> HIDE DEF e
<1>3. /\ news' \in Seq(Event) /\ Len(news') = Len(news) + 1 /\ Len(news) \in Nat
      /\ DOMAIN news = 1..Len(news) /\ DOMAIN news' = 1..(Len(news) + 1)
      /\ \A j \in DOMAIN news : news'[j] = news[j]
      /\ news'[Len(news) + 1] = e
  BY <1>1
<1>4. ~update => Later'
  BY <1>2, <1>3 DEF Later
<1>5. Later => Later'
  BY <1>3 DEF Later
<1>6. ASSUME NEW j \in 0..Len(news'), \A m \in (j + 1)..Len(news') : news'[m].update
      PROVE  (IF j = 0 THEN cached' ELSE news'[j].value) = value'
  <2>1. CASE j = Len(news) + 1
    BY <1>2, <1>3, <2>1
  <2>2. CASE j # Len(news) + 1
    <3>1. j \in 0..Len(news) /\ Len(news) + 1 \in (j + 1)..Len(news')
      BY <1>3, <1>6, <2>2
    <3>2. update
      BY <1>2, <1>3, <1>6, <3>1
    <3>3. \A m \in (j + 1)..Len(news) : news[m].update
      BY <1>3, <1>6, <3>1
    <3>4. (IF j = 0 THEN cached ELSE news[j].value) = value
      BY <3>1, <3>3 DEF Chained
    <3> QED
      BY <1>3, <3>1, <3>2, <3>4
  <2> QED
    BY <2>1, <2>2
<1> QED
  BY <1>3, <1>4, <1>5, <1>6 DEF Chained

\* The first event comes: what the others say stays, and so does the value unless one came.
LEMMA CameFacts ==
  ASSUME WidgetTypes, Chained, news # <<>>, news' = Tail(news), cached' = Head(news).value, value' = value
  PROVE  /\ Head(news) \in Event /\ news' \in Seq(Event) /\ cached' \in Int /\ Chained'
         /\ Head(news).update /\ Later => Later'
         /\ Head(news).update /\ ~Later => cached' = cached
<1>1. news \in Seq(Event) /\ Len(news) \in Nat \ {0} /\ DOMAIN news = 1..Len(news) /\ Head(news) = news[1]
  BY EmptySeq DEF WidgetTypes
<1>2. /\ news' \in Seq(Event) /\ Len(news') = Len(news) - 1 /\ DOMAIN news' = 1..(Len(news) - 1)
      /\ \A j \in 1..(Len(news) - 1) : news'[j] = news[j + 1]
  BY <1>1
<1>3. Head(news) \in Event /\ cached' \in Int
  <2>1. news[1] \in Event
    BY <1>1
  <2> QED
    BY <1>1, <2>1 DEF Event
<1>4. ASSUME NEW j \in 0..Len(news'), \A m \in (j + 1)..Len(news') : news'[m].update
      PROVE  (IF j = 0 THEN cached' ELSE news'[j].value) = value'
  <2>1. j + 1 \in 0..Len(news) /\ j + 1 # 0
    BY <1>1, <1>2
  <2>2. \A m \in (j + 2)..Len(news) : news[m].update
    <3> SUFFICES ASSUME NEW m \in (j + 2)..Len(news) PROVE news[m].update
      OBVIOUS
    <3>1. m - 1 \in (j + 1)..Len(news') /\ m - 1 \in 1..(Len(news) - 1) /\ news'[m - 1] = news[m]
      BY <1>1, <1>2
    <3> QED
      BY <1>4, <3>1
  <2>3. news[j + 1].value = value
    <3>1. (j + 1) + 1 = j + 2
      BY <1>1, <1>2
    <3> QED
      BY <2>1, <2>2, <3>1 DEF Chained
  <2>4. j # 0 => news'[j] = news[j + 1]
    BY <1>1, <1>2
  <2> QED
    BY <1>1, <1>2, <2>3, <2>4
<1>5. ASSUME Head(news).update, Later PROVE Later'
  <2>1. PICK j \in DOMAIN news : ~news[j].update
    BY <1>5 DEF Later
  <2>2. j # 1 /\ j - 1 \in DOMAIN news' /\ news'[j - 1] = news[j]
    BY <1>1, <1>2, <1>5, <2>1
  <2> QED
    BY <2>1, <2>2 DEF Later
<1>6. ASSUME ~Later PROVE cached' = cached
  <2>1. \A m \in 1..Len(news) : news[m].update
    BY <1>1, <1>6 DEF Later
  <2>2. cached = value /\ news[1].value = value
    BY <1>1, <2>1 DEF Chained
  <2> QED
    BY <1>1, <2>2
<1> QED
  BY <1>2, <1>3, <1>4, <1>5, <1>6 DEF Chained

LEMMA ShowsIf ==
  ASSUME conf' = conf,
         conf.kind \in W!Shows /\ ~stray' /\ ~Later' =>
             \E v : (v = cached' \/ Sent(calls', v)) /\ Agreed(v, shown')
  PROVE  ShowsIt'
<1>1. \A v : Sent(calls, v)' <=> Sent(calls', v)
  BY DEF Sent
<1> QED
  BY <1>1, ConfStays DEF ShowsIt

\* What the user does changes nothing that the port has said.
LEMMA GestureHolds ==
  ASSUME WidgetInv, W!Idle, calls' \in Seq(Call), \A v : Sent(calls, v) => Sent(calls', v), Showable(shown'),
         \/ shown' = shown /\ stray' = stray
         \/ stray'
         \/ \E v : (v = cached \/ Sent(calls', v)) /\ Agreed(v, shown')
         \/ conf.kind \notin W!Shows
  PROVE  WidgetInv'
<1>1. UNCHANGED <<conf, value, up, news, cached>>
  BY DEF W!Idle, W!port
<1>2. ConfTypes' /\ ShownTypes' /\ WidgetTypes' /\ Chained'
  BY <1>1, ConfStays DEF WidgetInv, WidgetTypes, Chained
<1>3. Later' <=> Later
  BY <1>1 DEF Later
<1>4. conf.kind \in W!Shows /\ ~stray /\ ~Later =>
          \E v : (v = cached \/ Sent(calls, v)) /\ Agreed(v, shown)
  BY DEF WidgetInv, ShowsIt, AgreesWith
<1>5. ShowsIt'
  BY <1>1, <1>3, <1>4, ShowsIf
<1> QED
  BY <1>2, <1>5 DEF WidgetInv

\* Requests of a widget that shows no value, or gestures that show nothing new.
LEMMA AskHolds ==
  ASSUME WidgetInv, W!Idle, shown' = shown, stray' = stray,
         W!AskNone \/ \E values \in Seq(Int) : W!Ask(values)
  PROVE  WidgetInv'
<1>1. calls \in Seq(Call) /\ Showable(shown)
  BY DEF WidgetInv, WidgetTypes, ShownTypes, Showable
<1>2. CASE W!AskNone
  BY <1>1, <1>2, GestureHolds DEF W!AskNone
<1>3. ASSUME NEW values \in Seq(Int), W!Ask(values) PROVE WidgetInv'
  <2>1. calls' \in Seq(Call) /\ \A v : Sent(calls, v) => Sent(calls', v)
    BY <1>1, <1>3, AskFacts
  <2> QED
    BY <1>1, <2>1, GestureHolds
<1> QED
  BY <1>2, <1>3

LEMMA ValuesAreNumbers ==
  Top \in Nat /\ W!OnValue \in Int /\ W!OffValue \in Int /\ Places \subseteq 0..W!Length
BY DashboardAssumption DEF W!OnValue, W!OffValue, W!Length

LEMMA OneNumber == \A x \in Int : <<x>> \in Seq(Int) /\ <<x>> # <<>> /\ Len(<<x>>) = 1 /\ <<x>>[1] = x
OBVIOUS

LEMMA PressesHold ==
  ASSUME WidgetInv,
         \/ \E by \in {-1, 1} : W!IncDec(by)
         \/ W!PressSequence \/ W!Press \/ W!PointerUp \/ W!Timer \/ W!Begin
         \/ \E to : W!DragOnOff(to)
         \/ W!EndSlider(FALSE)
  PROVE  WidgetInv'
<1>1. ASSUME NEW by \in {-1, 1}, W!IncDec(by) PROVE WidgetInv'
  <2> DEFINE v == IF cached = None THEN 0 ELSE cached
             w == IF v + by \in 0..Top THEN v + by ELSE v
  <2>1. W!Ask(<<w>>) /\ W!Idle /\ shown' = shown /\ stray' = stray
    BY <1>1 DEF W!IncDec
  <2>2. w \in Int
    BY DEF WidgetInv, WidgetTypes
  <2> HIDE DEF w
  <2>3. <<w>> \in Seq(Int)
    BY <2>2
  <2>4. \E values \in Seq(Int) : W!Ask(values)
    BY <2>1, <2>3, Zenon
  <2> QED
    BY <2>1, <2>4, AskHolds
<1>2. CASE W!PressSequence
  <2>1. W!Ask(<<0>>) /\ W!Idle /\ shown' = shown /\ stray' = stray
    BY <1>2 DEF W!PressSequence
  <2>2. <<0>> \in Seq(Int)
    OBVIOUS
  <2>3. \E values \in Seq(Int) : W!Ask(values)
    BY <2>1, <2>2, Zenon
  <2> QED
    BY <2>1, <2>3, AskHolds
<1>3. CASE W!Press
  <2>1. W!Ask(<<IF conf.inverted THEN W!OffValue ELSE W!OnValue>>) /\ W!Idle /\ shown' = shown /\ stray' = stray
    BY <1>3 DEF W!Press
  <2> QED
    BY <2>1, OneNumber, ValuesAreNumbers, AskHolds
<1>4. ASSUME W!Release, W!Idle, shown' = shown, stray' = stray PROVE WidgetInv'
  BY <1>4, OneNumber, ValuesAreNumbers, AskHolds DEF W!Release
<1>5. CASE W!PointerUp
  BY <1>4, <1>5 DEF W!PointerUp
<1>6. CASE W!Timer
  BY <1>4, <1>6 DEF W!Timer
<1>7. CASE W!Begin
  BY <1>7, AskHolds DEF W!Begin
<1>8. ASSUME NEW to, W!DragOnOff(to) PROVE WidgetInv'
  BY <1>8, AskHolds DEF W!DragOnOff
<1>9. CASE W!EndSlider(FALSE)
  BY <1>9, AskHolds DEF W!EndSlider
<1> QED
  BY <1>1, <1>2, <1>3, <1>5, <1>6, <1>7, <1>8, <1>9

LEMMA PressRadioHolds ==
  ASSUME WidgetInv, NEW i \in DOMAIN W!Buttons, W!PressRadio(i) PROVE WidgetInv'
<1> DEFINE b == W!Buttons[i]
<1>1. conf.kind = "Radio" /\ shown' = W!RadioShown(b) /\ W!Ask(<<b>>) /\ W!Idle
  BY DEF W!PressRadio, W!Reachable, W!Is
<1>2. b \in Int
  BY ValuesAreNumbers DEF W!Buttons
<1> HIDE DEF b
<1>3. calls' \in Seq(Call) /\ (\A v : Sent(calls, v) => Sent(calls', v)) /\ Sent(calls', b)
  BY <1>1, <1>2, OneNumber, AskFacts DEF WidgetInv, WidgetTypes
<1>4. Agreed(b, shown')
  BY <1>1 DEF Agreed, W!Changed, W!Face, W!Is
<1>5. Showable(shown')
  BY <1>1 DEF Showable
<1> QED
  BY <1>1, <1>3, <1>4, <1>5, GestureHolds

LEMMA EndOnOffHolds ==
  ASSUME WidgetInv, W!EndOnOff PROVE WidgetInv'
<1> DEFINE clicked == held = 0
           flag == IF clicked THEN ~shown ELSE shown
           forgets == past /\ (IF flag THEN held > 0 ELSE held < 0)
           switches == past /\ ~forgets
           now == IF switches THEN ~flag ELSE flag
           values == (IF clicked THEN <<W!OnOffValue(flag)>> ELSE <<>>)
                     \o (IF switches THEN <<W!OnOffValue(~flag)>> ELSE <<>>)
<1>1. conf.kind = "OnOff" /\ shown' = now /\ W!Ask(values) /\ W!Idle /\ stray' = stray
  BY DEF W!EndOnOff, W!Is
<1>2. shown \in BOOLEAN /\ flag \in BOOLEAN /\ now \in BOOLEAN
  BY <1>1 DEF WidgetInv, ShownTypes
<1>3. \A x : W!OnOffValue(x) \in Int
  BY DEF W!OnOffValue
<1>4. /\ values \in Seq(Int)
      /\ values # <<>> => values[Len(values)] = W!OnOffValue(now)
      /\ values = <<>> => now = shown
  <2>1. \A x, y \in Int : /\ <<x>> \o <<y>> \in Seq(Int) /\ Len(<<x>> \o <<y>>) = 2 /\ (<<x>> \o <<y>>)[2] = y
                          /\ <<x>> \o <<>> = <<x>> /\ <<>> \o <<y>> = <<y>>
    OBVIOUS
  <2>2. <<>> \o <<>> = <<>> /\ <<>> \in Seq(Int)
    OBVIOUS
  <2> HIDE DEF flag, forgets
  <2>3. CASE clicked /\ switches
    BY <1>3, <2>1, <2>3
  <2>4. CASE clicked /\ ~switches
    BY <1>3, <2>1, <2>4, OneNumber
  <2>5. CASE ~clicked /\ switches
    BY <1>3, <2>1, <2>5, OneNumber
  <2>6. CASE ~clicked /\ ~switches
    BY <2>2, <2>6 DEF flag
  <2> QED
    BY <2>3, <2>4, <2>5, <2>6
<1> HIDE DEF values, now
<1>5. calls' \in Seq(Call) /\ (\A v : Sent(calls, v) => Sent(calls', v))
      /\ (values # <<>> => Sent(calls', W!OnOffValue(now)))
  BY <1>1, <1>4, AskFacts DEF WidgetInv, WidgetTypes
<1>6. Showable(now)
  BY <1>1, <1>2 DEF Showable
<1>7. Agreed(W!OnOffValue(now), now)
  <2>1. W!OnOffValue(now) # None => W!OnOffShown(W!OnOffValue(now), now) = now
    <3>1. conf.inverted \in BOOLEAN /\ (~conf.boolean => ~conf.inverted)
      BY <1>1 DEF WidgetInv, ConfTypes
    <3>2. CASE now = conf.inverted
      <4>1. W!OnOffValue(now) = 0
        BY <3>2 DEF W!OnOffValue
      <4>2. conf.boolean => W!OnOffShown(0, now) = conf.inverted
        BY <3>1 DEF W!OnOffShown, W!Truth
      <4>3. ~conf.boolean => W!OnOffShown(0, now) = FALSE
        BY DEF W!OnOffShown, W!OnValue, W!OffValue
      <4> QED
        BY <3>1, <3>2, <4>1, <4>2, <4>3
    <3>3. CASE now # conf.inverted
      <4>1. W!OnOffValue(now) = 1
        BY <3>3 DEF W!OnOffValue
      <4>2. conf.boolean /\ 1 # None => W!OnOffShown(1, now) = ~conf.inverted
        BY <3>1 DEF W!OnOffShown, W!Truth
      <4>3. ~conf.boolean => W!OnOffShown(1, now) = TRUE
        BY DEF W!OnOffShown, W!OnValue, W!OffValue
      <4> QED
        BY <1>2, <3>1, <3>3, <4>1, <4>2, <4>3
    <3> QED
      BY <3>2, <3>3
  <2>2. W!OnOffValue(now) # None => W!Changed(W!OnOffValue(now), now) = W!OnOffShown(W!OnOffValue(now), now)
    BY <1>1 DEF W!Changed, W!Face, W!Is
  <2> QED
    BY <2>1, <2>2 DEF Agreed
<1> QED
  BY <1>1, <1>4, <1>5, <1>6, <1>7, GestureHolds

LEMMA DragSliderHolds ==
  ASSUME WidgetInv, NEW to \in Places, W!DragSlider(to) PROVE WidgetInv'
<1>1. conf.kind = "Slider" /\ shown' = [pos |-> W!DragPos(to), progress |-> FALSE] /\ stray' /\ W!Idle
      /\ W!AskNone
  BY DEF W!DragSlider, W!Is
<1>2. W!DragPos(to) \in 0..W!Length
  BY ValuesAreNumbers, PosFacts
<1>3. Showable(shown')
  BY <1>1, <1>2 DEF Showable
<1>4. calls' = calls /\ calls \in Seq(Call)
  BY <1>1 DEF W!AskNone, WidgetInv, WidgetTypes
<1> QED
  BY <1>1, <1>3, <1>4, GestureHolds

\* The value that is set looks like the one under the handle.
LEMMA EndSliderHolds ==
  ASSUME WidgetInv, W!EndSlider(TRUE) PROVE WidgetInv'
<1> DEFINE q == W!SnapValue(shown.pos)
           new == [pos |-> W!AnalogPos(q), progress |-> FALSE]
<1>1. /\ conf.kind = "Slider" /\ W!Idle /\ shown' = new
      /\ IF cached # None /\ q = 4 * cached THEN W!AskNone ELSE W!Ask(<<W!Round(q)>>)
  BY DEF W!EndSlider, W!Is
<1>2. shown \in [pos : 0..W!Length, progress : BOOLEAN] /\ cached \in Int \cup {None} /\ calls \in Seq(Call)
  BY <1>1 DEF WidgetInv, ShownTypes, WidgetTypes
<1>3. shown.pos \in 0..W!Length
  BY <1>2
<1>4. q \in 0..W!Length /\ q \in Int /\ W!Round(q) \in Int
  BY <1>3, PosFacts, TickFacts DEF W!Round
<1>5. W!AnalogPos(q) \in 0..W!Length /\ (~conf.ticksonly => W!AnalogPos(q) = q)
  BY <1>4, PosFacts, TickFacts DEF W!Clamp
<1>6. conf.ticksonly => \E i \in {1, 2, 3} : q = 4 * W!Ticks[i]
  BY <1>1, <1>3, PosFacts DEF WidgetInv, ConfTypes
<1> HIDE DEF q
<1>7. ASSUME NEW v \in Int, v # None, q = 4 * v PROVE Agreed(v, new)
  <2>1. ~(conf.ticksonly /\ v < 0)
    BY <1>4, <1>7
  <2>2. W!SliderShown(v) = new
    BY <1>7, <2>1 DEF W!SliderShown
  <2>3. W!Changed(v, new) = W!SliderShown(v)
    BY <1>1, <1>7 DEF W!Changed, W!Face, W!Is
  <2> QED
    BY <2>2, <2>3 DEF Agreed
<1>8. Agreed(W!Round(q), new)
  <2>1. CASE conf.ticksonly
    <3>1. PICK i \in {1, 2, 3} : q = 4 * W!Ticks[i]
      BY <1>6, <2>1
    <3>2. W!Ticks[i] \in Int
      BY TickFacts
    <3>3. W!Round(q) = W!Ticks[i]
      BY <3>1, <3>2 DEF W!Round
    <3> QED
      BY <1>7, <3>1, <3>2, <3>3 DEF Agreed
  <2>2. CASE ~conf.ticksonly
    BY <1>1, <1>5, <2>2 DEF Agreed
  <2> QED
    BY <2>1, <2>2
<1>9. Showable(new)
  BY <1>1, <1>5 DEF Showable
<1>10. CASE cached # None /\ q = 4 * cached
  <2>1. Agreed(cached, new) /\ calls' = calls
    BY <1>1, <1>2, <1>7, <1>10 DEF W!AskNone
  <2> QED
    BY <1>1, <1>2, <1>9, <2>1, GestureHolds
<1>11. CASE ~(cached # None /\ q = 4 * cached)
  <2> DEFINE r == W!Round(q)
  <2>1. W!Ask(<<r>>) /\ r \in Int
    BY <1>1, <1>4, <1>11
  <2>2. Agreed(r, new)
    BY <1>8
  <2> HIDE DEF r
  <2>3. calls' \in Seq(Call) /\ (\A v : Sent(calls, v) => Sent(calls', v)) /\ Sent(calls', r)
    BY <1>2, <2>1, OneNumber, AskFacts
  <2> QED
    BY <1>1, <1>9, <2>2, <2>3, GestureHolds
<1> QED
  BY <1>10, <1>11

\* The widget is made anew, or its request comes back refused.
LEMMA RefreshHolds ==
  ASSUME WidgetInv, W!Refresh PROVE WidgetInv'
<1>1. /\ shown' = W!Fresh(cached, valid, shown) /\ stray' = ~valid
      /\ UNCHANGED <<conf, value, up, news, cached, valid, calls>> /\ calls \in Seq(Call)
      /\ cached \in Int \cup {None}
  BY DEF W!Refresh, W!port, WidgetInv, WidgetTypes
<1> DEFINE blank == IF W!Is({"Slider"}) THEN W!SliderShown(0) ELSE IF W!Is({"OnOff"}) THEN shown ELSE None
<1>2. Showable(blank)
  <2>1. CASE conf.kind = "Slider"
    <3>1. W!SliderShown(0) \in [pos : 0..W!Length, progress : BOOLEAN]
      BY PosFacts, TickFacts DEF W!SliderShown
    <3> QED
      BY <2>1, <3>1 DEF Showable, W!Is
  <2>2. CASE conf.kind # "Slider"
    BY <2>2 DEF Showable, W!Is, WidgetInv, ShownTypes
  <2> QED
    BY <2>1, <2>2
<1>3. shown' = IF valid THEN W!Current(cached, blank) ELSE blank
  BY <1>1 DEF W!Fresh
<1> HIDE DEF blank
<1>4. Showable(shown') /\ (valid => Agreed(cached, shown'))
  BY <1>1, <1>2, <1>3, FaceShowable, FaceAgrees DEF WidgetInv
<1>5. ConfTypes' /\ ShownTypes' /\ WidgetTypes' /\ Chained'
  BY <1>1, <1>4, ConfStays DEF WidgetInv, WidgetTypes, Chained
<1>6. ShowsIt'
  BY <1>1, <1>4, ShowsIf
<1> QED
  BY <1>5, <1>6 DEF WidgetInv

LEMMA AnswerHolds ==
  ASSUME WidgetInv, NEW i \in DOMAIN calls, W!Answer(i) PROVE WidgetInv'
<1>1. /\ calls' = W!RemoveAt(calls, i) /\ UNCHANGED <<conf, value, up, news, cached, valid>>
      /\ calls \in Seq(Call) /\ cached \in Int \cup {None} /\ Showable(shown) /\ ConfTypes
  BY DEF W!Answer, W!port, WidgetInv, WidgetTypes, ShownTypes, Showable
<1>2. calls' \in Seq(Call) /\ \A v : calls[i].stage # "sent" /\ Sent(calls, v) => Sent(calls', v)
  BY <1>1, RemovedFacts
<1>3. \/ calls[i].stage = "done" /\ shown' = shown /\ stray' = stray
      \/ shown' = W!Current(cached, shown)
      \/ stray' /\ shown' = shown
  BY DEF W!Answer
<1>4. Showable(shown')
  BY <1>1, <1>3, FaceShowable
<1>5. ConfTypes' /\ ShownTypes' /\ WidgetTypes' /\ Chained'
  BY <1>1, <1>2, <1>4, ConfStays DEF WidgetInv, WidgetTypes, Chained
<1>6. Later' <=> Later
  BY <1>1 DEF Later
<1>7. ShowsIt'
  <2>1. CASE calls[i].stage = "done" /\ shown' = shown /\ stray' = stray
    BY <1>1, <1>2, <1>6, <2>1, ShowsIf DEF WidgetInv, ShowsIt, AgreesWith
  <2>2. CASE shown' = W!Current(cached, shown)
    BY <1>1, <2>2, FaceAgrees, ShowsIf
  <2>3. CASE stray'
    BY <1>1, <2>3, ShowsIf
  <2> QED
    BY <1>3, <2>1, <2>2, <2>3
<1> QED
  BY <1>5, <1>7 DEF WidgetInv

\* The port changes, or the server has a request: the value event is on its way, or the value
\* is the one that was.
LEMMA PortHolds ==
  ASSUME WidgetInv, (\E v \in Int : W!PortChanges(v)) \/ W!PortUpdates PROVE WidgetInv'
<1>1. WidgetTypes /\ Chained /\ UNCHANGED <<conf, cached, shown, stray, calls>>
  BY DEF WidgetInv, W!PortChanges, W!PortUpdates
<1>2. Showable(shown')
  BY <1>1 DEF WidgetInv, ShownTypes, Showable
<1>3. ASSUME NEW v \in Int, W!PortChanges(v) PROVE WidgetTypes' /\ Chained' /\ Later'
  <2>1. W!Tell(v, up, FALSE) /\ value' = v /\ up' = up
    BY <1>3 DEF W!PortChanges
  <2>2. news' \in Seq(Event) /\ Chained' /\ Later'
    BY <1>1, <2>1, ToldFacts DEF WidgetTypes
  <2> QED
    BY <1>1, <2>1, <2>2 DEF WidgetTypes
<1>4. ASSUME W!PortUpdates PROVE WidgetTypes' /\ Chained' /\ (Later => Later')
  <2>1. W!Tell(value, up', TRUE) /\ value' = value /\ up' \in BOOLEAN /\ value \in Int
    BY <1>1, <1>4 DEF W!PortUpdates, WidgetTypes
  <2>2. news' \in Seq(Event) /\ Chained' /\ (Later => Later')
    BY <1>1, <2>1, ToldFacts
  <2> QED
    BY <1>1, <2>1, <2>2 DEF WidgetTypes
<1>5. WidgetTypes' /\ Chained' /\ (Later => Later')
  BY <1>3, <1>4
<1>6. ShowsIt'
  BY <1>1, <1>5, ShowsIf DEF WidgetInv, ShowsIt, AgreesWith
<1> QED
  BY <1>1, <1>2, <1>5, <1>6, ConfStays DEF WidgetInv

\* A call is at another stage than before.
LEMMA StagedFacts ==
  ASSUME calls \in Seq(Call), NEW i \in DOMAIN calls, NEW s \in {"done", "lost"},
         calls' = [calls EXCEPT ![i].stage = s]
  PROVE  /\ calls' \in Seq(Call)
         /\ \A v : Sent(calls, v) => Sent(calls', v) \/ (calls[i].stage = "sent" /\ v = calls[i].value)
<1>1. \A j \in DOMAIN calls : calls[j] \in Call /\ (j # i => calls'[j] = calls[j])
  OBVIOUS
<1>2. [calls[i] EXCEPT !.stage = s] \in Call
  BY <1>1 DEF Call
<1>3. DOMAIN calls' = DOMAIN calls /\ calls' \in Seq(Call)
  BY <1>2
<1>4. \A v : Sent(calls, v) => Sent(calls', v) \/ (calls[i].stage = "sent" /\ v = calls[i].value)
  BY <1>1, <1>3 DEF Sent
<1> QED
  BY <1>3, <1>4

LEMMA LostHolds ==
  ASSUME WidgetInv, NEW i \in DOMAIN calls, W!Lost(i) PROVE WidgetInv'
<1>1. /\ calls[i].stage = "done" /\ calls' = [calls EXCEPT ![i].stage = "lost"]
      /\ UNCHANGED <<conf, value, up, news, cached, shown, stray>>
      /\ WidgetTypes /\ calls \in Seq(Call)
  BY DEF W!Lost, W!port, WidgetInv, WidgetTypes
<1>2. calls' \in Seq(Call) /\ \A v : Sent(calls, v) => Sent(calls', v)
  BY <1>1, StagedFacts
<1>3. Showable(shown') /\ (Later' <=> Later)
  BY <1>1 DEF WidgetInv, ShownTypes, Showable, Later
<1>4. ShowsIt'
  BY <1>1, <1>2, <1>3, ShowsIf DEF WidgetInv, ShowsIt, AgreesWith
<1>5. WidgetTypes' /\ Chained'
  BY <1>1, <1>2 DEF WidgetInv, WidgetTypes, Chained
<1> QED
  BY <1>1, <1>3, <1>4, <1>5, ConfStays DEF WidgetInv

LEMMA PatchedHolds ==
  ASSUME WidgetInv, NEW i \in DOMAIN calls, W!Patched(i) PROVE WidgetInv'
<1>1. /\ calls[i].stage = "sent" /\ calls' = [calls EXCEPT ![i].stage = "done"]
      /\ UNCHANGED <<conf, up, cached, shown, stray>>
      /\ WidgetTypes /\ Chained /\ calls \in Seq(Call) /\ up \in BOOLEAN /\ value \in Int
      /\ value' = IF conf.kind = "Sequence" THEN value ELSE calls[i].value
      /\ IF value' # value THEN W!Tell(value', up, FALSE) ELSE news' = news
  BY DEF W!Patched, W!Is, WidgetInv, WidgetTypes
<1>2. calls' \in Seq(Call) /\ \A v : Sent(calls, v) => Sent(calls', v) \/ v = calls[i].value
  BY <1>1, StagedFacts
<1>3. value' \in Int
  <2>1. calls[i] \in Call
    BY <1>1
  <2> QED
    BY <1>1, <2>1 DEF Call
<1>4. Showable(shown')
  BY <1>1 DEF WidgetInv, ShownTypes, Showable
<1>5. CASE value' # value
  <2>1. PICK v \in Int : v = value'
    BY <1>3
  <2>2. news' \in Seq(Event) /\ Chained' /\ Later'
    BY <1>1, <1>5, <2>1, ToldFacts
  <2>3. WidgetTypes'
    BY <1>1, <1>2, <1>3, <2>2 DEF WidgetTypes
  <2>4. ShowsIt'
    BY <1>1, <2>2, ShowsIf
  <2> QED
    BY <1>1, <1>4, <2>2, <2>3, <2>4, ConfStays DEF WidgetInv
<1>6. CASE value' = value
  <2>1. news' = news /\ WidgetTypes' /\ Chained'
    BY <1>1, <1>2, <1>3, <1>6 DEF WidgetTypes, Chained
  <2>2. Later' <=> Later
    BY <2>1 DEF Later
  <2>3. ~Later => cached = value
    <3> SUFFICES ASSUME ~Later PROVE cached = value
      OBVIOUS
    <3>1. \A m \in 1..Len(news) : news[m].update
      BY <1>1 DEF Later, WidgetTypes
    <3>2. 0 \in 0..Len(news)
      BY <1>1 DEF WidgetTypes
    <3> QED
      BY <1>1, <3>1, <3>2 DEF Chained
  <2>4. conf.kind = "Sequence" => conf.kind \notin W!Shows
    BY DEF W!Shows
  <2>5. conf.kind # "Sequence" => calls[i].value = value
    BY <1>1, <1>6
  <2>6. ShowsIt'
    <3> SUFFICES ASSUME conf.kind \in W!Shows, ~stray, ~Later
                 PROVE  \E v : (v = cached \/ Sent(calls', v)) /\ Agreed(v, shown)
      BY <1>1, <2>2, ShowsIf
    <3>1. PICK v : (v = cached \/ Sent(calls, v)) /\ Agreed(v, shown)
      BY DEF WidgetInv, ShowsIt, AgreesWith
    <3> QED
      BY <1>2, <2>3, <2>4, <2>5, <3>1
  <2> QED
    BY <1>1, <1>4, <2>1, <2>6, ConfStays DEF WidgetInv
<1> QED
  BY <1>5, <1>6

LEMMA ComesHolds ==
  ASSUME WidgetInv, W!ValueChange \/ W!PortUpdate PROVE WidgetInv'
<1>1. /\ UNCHANGED <<conf, value, up, calls>> /\ news # <<>> /\ news' = Tail(news) /\ cached' = Head(news).value
      /\ WidgetTypes /\ Chained /\ ConfTypes /\ Showable(shown)
  BY DEF W!ValueChange, W!PortUpdate, W!port, WidgetInv, ShownTypes, Showable
<1>2. /\ news' \in Seq(Event) /\ cached' \in Int /\ Chained'
      /\ Head(news).update /\ Later => Later'
      /\ Head(news).update /\ ~Later => cached' = cached
  BY <1>1, CameFacts
<1>3. PICK v \in Int : v = cached'
  BY <1>2
<1>4. \/ stray' /\ shown' = shown
      \/ shown' = W!Changed(v, shown) \/ shown' = W!Current(v, shown)
      \/ Head(news).update /\ shown' = shown /\ stray' = stray
  BY <1>3 DEF W!ValueChange, W!PortUpdate
<1>5. Showable(shown')
  BY <1>1, <1>4, FaceShowable
<1>6. WidgetTypes'
  BY <1>1, <1>2 DEF WidgetTypes
<1>7. ShowsIt'
  <2>1. CASE stray'
    BY <1>1, <2>1, ShowsIf
  <2>2. CASE shown' = W!Changed(v, shown) \/ shown' = W!Current(v, shown)
    BY <1>1, <1>3, <2>2, FaceAgrees, ShowsIf
  <2>3. CASE Head(news).update /\ shown' = shown /\ stray' = stray
    BY <1>1, <1>2, <2>3, ShowsIf DEF WidgetInv, ShowsIt, AgreesWith
  <2> QED
    BY <1>4, <2>1, <2>2, <2>3
<1> QED
  BY <1>1, <1>2, <1>5, <1>6, <1>7, ConfStays DEF WidgetInv

LEMMA WidgetStepHolds ==
  ASSUME WidgetInv, [W!Next]_W!vars PROVE WidgetInv'
<1>1. ASSUME NEW v \in (IF conf.ticksonly THEN -1 ELSE 0)..(IF conf.boolean THEN 1 ELSE Top), W!PortChanges(v)
      PROVE  WidgetInv'
  <2>1. v \in Int
    BY ValuesAreNumbers
  <2> QED
    BY <1>1, <2>1, PortHolds
<1>2. CASE W!PortUpdates
  BY <1>2, PortHolds
<1>3. CASE W!ValueChange \/ W!PortUpdate
  BY <1>3, ComesHolds
<1>4. CASE W!Refresh
  BY <1>4, RefreshHolds
<1>5. ASSUME NEW i \in DOMAIN calls, W!Patched(i) \/ W!Answer(i) \/ W!Lost(i) PROVE WidgetInv'
  BY <1>5, PatchedHolds, AnswerHolds, LostHolds
<1>6. CASE W!IncDec(-1) \/ W!IncDec(1) \/ W!PressSequence \/ W!Press \/ W!PointerUp \/ W!Timer \/ W!Begin
           \/ (\E to \in -2..2 : W!DragOnOff(to)) \/ W!EndSlider(FALSE)
  BY <1>6, PressesHold
<1>7. ASSUME NEW i \in DOMAIN W!Buttons, W!PressRadio(i) PROVE WidgetInv'
  BY <1>7, PressRadioHolds
<1>8. CASE W!EndOnOff
  BY <1>8, EndOnOffHolds
<1>9. CASE W!EndSlider(TRUE)
  BY <1>9, EndSliderHolds
<1>10. ASSUME NEW to \in Places, W!DragSlider(to) PROVE WidgetInv'
  BY <1>10, DragSliderHolds
<1>11. CASE UNCHANGED W!vars
  <2>1. UNCHANGED <<conf, value, up, news, cached, shown, stray, calls>>
    BY <1>11 DEF W!vars, W!port
  <2>2. WidgetTypes' /\ Chained' /\ Showable(shown') /\ (Later' <=> Later)
    BY <2>1 DEF WidgetInv, WidgetTypes, Chained, ShownTypes, Showable, Later
  <2>3. ShowsIt'
    BY <2>1, <2>2, ShowsIf DEF WidgetInv, ShowsIt, AgreesWith
  <2> QED
    BY <2>1, <2>2, <2>3, ConfStays DEF WidgetInv
<1> QED
  BY <1>1, <1>2, <1>3, <1>4, <1>5, <1>6, <1>7, <1>8, <1>9, <1>10, <1>11 DEF W!Next

LEMMA WidgetInit ==
  ASSUME W!Init PROVE WidgetInv
<1>1. ConfTypes
  BY DEF W!Init, W!Is, ConfTypes
<1>2. /\ value \in Int /\ up = TRUE /\ cached \in {None, value} /\ calls = <<>> /\ stray = FALSE
      /\ news = IF cached = None THEN <<[value |-> value, up |-> TRUE, update |-> FALSE]>> ELSE <<>>
      /\ shown = W!Fresh(cached, TRUE, FALSE)
  BY ValuesAreNumbers DEF W!Init
<1>3. WidgetTypes
  <2>1. \A e \in Event : <<e>> \in Seq(Event)
    OBVIOUS
  <2>2. [value |-> value, up |-> TRUE, update |-> FALSE] \in Event
    BY <1>2 DEF Event
  <2>3. news \in Seq(Event)
    BY <1>2, <2>1, <2>2
  <2> QED
    BY <1>2, <2>3 DEF WidgetTypes
<1>4. Chained
  <2>1. CASE cached = None
    BY <1>2, <2>1 DEF Chained
  <2>2. CASE cached # None
    BY <1>2, <2>2 DEF Chained
  <2> QED
    BY <2>1, <2>2
<1> DEFINE blank == IF W!Is({"Slider"}) THEN W!SliderShown(0) ELSE IF W!Is({"OnOff"}) THEN FALSE ELSE None
<1>5. Showable(blank)
  <2>1. W!SliderShown(0) \in [pos : 0..W!Length, progress : BOOLEAN]
    BY PosFacts, TickFacts DEF W!SliderShown
  <2> QED
    BY <2>1 DEF Showable, W!Is
<1>6. shown = W!Current(cached, blank)
  BY <1>2 DEF W!Fresh
<1> HIDE DEF blank
<1>7. Showable(shown) /\ Agreed(cached, shown)
  BY <1>1, <1>2, <1>5, <1>6, FaceShowable, FaceAgrees
<1> QED
  BY <1>1, <1>3, <1>4, <1>7 DEF WidgetInv, ShownTypes, Showable, ShowsIt, AgreesWith

\* At rest there is neither an event nor a request to wait for.
LEMMA ShownFollows ==
  ASSUME WidgetInv PROVE W!ShownAtRest
<1> SUFFICES ASSUME W!AtRest, ~stray, W!Is(W!Shows) PROVE W!Agrees
  BY DEF W!ShownAtRest
<1>1. calls = <<>> /\ news = <<>>
  BY DEF W!AtRest
<1>2. ~Later /\ \A v : ~Sent(calls, v)
  BY <1>1 DEF Later, Sent
<1>3. Agreed(cached, shown)
  BY <1>2 DEF WidgetInv, ShowsIt, AgreesWith, W!Is
<1> QED
  BY <1>3 DEF Agreed, W!Agrees, W!Is

\* A press is released by what is there to do it, whatever other presses and timers did.
LEMMA PressFollows ==
  ASSUME W!PressIsReleased, [W!Next]_W!vars PROVE W!PressIsReleased'
<1> DEFINE Same == UNCHANGED <<conf, last, pressed, timers>>
<1>1. ASSUME conf.kind # "Push", conf' = conf, timers' = timers PROVE W!PressIsReleased'
  BY <1>1 DEF W!PressIsReleased, W!Is
<1>2. ASSUME Same PROVE W!PressIsReleased'
  BY <1>2 DEF W!PressIsReleased, W!Is
<1> HIDE DEF Same
<1>3. CASE W!PortUpdates \/ W!ValueChange \/ W!PortUpdate \/ W!Refresh \/ (\E v : W!PortChanges(v))
           \/ UNCHANGED W!vars
           \/ \E i : W!Patched(i) \/ W!Answer(i) \/ W!Lost(i)
  <2>1. Same
    BY <1>3 DEF W!PortUpdates, W!ValueChange, W!PortUpdate, W!Refresh, W!PortChanges, W!vars, W!Patched,
                W!Answer, W!Lost, W!gesture, Same
  <2> QED
    BY <1>2, <2>1
<1>4. CASE W!IncDec(-1) \/ W!IncDec(1) \/ W!PressSequence \/ (\E i : W!PressRadio(i))
           \/ W!Begin \/ W!EndOnOff \/ W!EndSlider(TRUE) \/ W!EndSlider(FALSE)
           \/ (\E to : W!DragOnOff(to) \/ W!DragSlider(to))
  <2>1. conf.kind # "Push" /\ conf' = conf /\ timers' = timers
    BY <1>4 DEF W!IncDec, W!PressSequence, W!PressRadio, W!Begin, W!EndOnOff, W!EndSlider, W!DragOnOff,
                W!DragSlider, W!Reachable, W!Is, W!Idle, W!gesture
  <2> QED
    BY <1>1, <2>1
<1>5. CASE W!Press
  <2>1. pressed' = TRUE
    BY <1>5 DEF W!Press
  <2> QED
    BY <2>1 DEF W!PressIsReleased
<1>6. ASSUME W!Release, conf' = conf PROVE W!PressIsReleased'
  <2> DEFINE off == IF conf.inverted THEN W!OnValue ELSE W!OffValue
  <2>1. <<off>> # <<>> /\ W!Last(<<off>>) = off
    BY DEF W!Last
  <2>2. conf.kind = "Push" => last' = off
    BY <1>6, <2>1 DEF W!Release, W!Ask, W!Is
  <2>3. off # IF conf.inverted THEN W!OffValue ELSE W!OnValue
    BY DEF W!OnValue, W!OffValue
  <2> QED
    BY <1>6, <2>2, <2>3 DEF W!PressIsReleased, W!Is
<1>7. CASE W!Timer
  BY <1>6, <1>7 DEF W!Timer, W!Idle
<1>8. CASE W!PointerUp
  BY <1>6, <1>8 DEF W!PointerUp, W!Idle
<1> QED
  BY <1>3, <1>4, <1>5, <1>7, <1>8 DEF W!Next

\* A widget at rest shows the value of its port and no button stays pressed, for any values,
\* ticks and number of requests, drags and events (setPortValue(), onPortValueChange(),
\* enterState(), _makeHandleDiv()).
THEOREM WidgetCorrect == W!Spec => []WidgetHolds
<1> DEFINE Inv == WidgetInv /\ W!PressIsReleased
<1>1. W!Init => Inv
  <2> SUFFICES ASSUME W!Init PROVE Inv
    OBVIOUS
  <2>1. last = None
    BY DEF W!Init
  <2>2. W!PressIsReleased
    BY <2>1, DashboardAssumption DEF W!PressIsReleased, W!OnValue, W!OffValue
  <2> QED
    BY <2>2, WidgetInit
<1>2. Inv /\ [W!Next]_W!vars => Inv'
  BY WidgetStepHolds, PressFollows
<1>3. Inv => WidgetHolds
  BY ShownFollows DEF WidgetHolds, W!WidgetHolds
<1> HIDE DEF Inv
<1> QED
  BY <1>1, <1>2, <1>3, PTL DEF W!Spec
=============================================================================
