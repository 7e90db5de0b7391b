--------------------------- MODULE CatalogProofs ---------------------------
(***************************************************************************)
(* Theorems about the catalog, for any manga, creators, listings, requests *)
(* and bounds.                                                             *)
(***************************************************************************)
EXTENDS Catalog, FiniteSetTheorems, SequenceTheorems, TLAPS

AskedPhases == {"fetching", "upserting", "clearing", "flagging", "crediting",
                "latest", "learning"}

(* Only manga of MangaDex's are synchronised.                              *)
AsksOfDex == \A r \in Requests : at[r] \in AskedPhases =>
                 \A i \in DOMAIN queue[r] : queue[r][i].manga \in Dex

Typing == TypeOK /\ AsksOfDex

LEMMA ItemIsTyped ==
    ASSUME NEW m \in Manga
    PROVE  /\ Unasked(m) \in ItemType
           /\ \A v, l \in 0..MaxVersion, c \in BOOLEAN : Item(m, v, l, c) \in ItemType
<1>1. 0 \in 0..MaxVersion
  BY BoundsAssumption
<1>2. \A v, l \in 0..MaxVersion, c \in BOOLEAN : Item(m, v, l, c) \in ItemType
  BY DEF Item, ItemType
<1> QED
  BY <1>1, <1>2 DEF Unasked

(* A request at work has an item.                                          *)
LEMMA ThisIsTyped ==
    ASSUME TypeOK, NEW r \in Requests, at[r] # "idle"
    PROVE  /\ queue[r] \in Seq(ItemType) /\ queue[r] # << >>
           /\ 1 \in DOMAIN queue[r] /\ queue[r][1] = This(r)
           /\ This(r) \in ItemType /\ ThisManga(r) \in Manga
<1>1. queue[r] \in Seq(ItemType) /\ queue[r] # << >>
  BY DEF TypeOK
<1>2. Len(queue[r]) \in Nat /\ Len(queue[r]) # 0 /\ DOMAIN queue[r] = 1..Len(queue[r])
  BY <1>1
<1>3. queue[r][1] = Head(queue[r]) /\ Head(queue[r]) \in ItemType
  BY <1>1, <1>2
<1> QED
  BY <1>1, <1>2, <1>3 DEF This, ThisManga, ItemType

LEMMA NewSequence ==
    ASSUME NEW S, NEW s \in Seq(S), s # << >>, NEW e \in S
    PROVE  /\ [s EXCEPT ![1] = e] \in Seq(S) /\ [s EXCEPT ![1] = e] # << >>
           /\ DOMAIN [s EXCEPT ![1] = e] = DOMAIN s
           /\ [s EXCEPT ![1] = e][1] = e
           /\ \A i \in DOMAIN s : i # 1 => [s EXCEPT ![1] = e][i] = s[i]
<1>1. Len(s) \in Nat /\ Len(s) # 0 /\ DOMAIN s = 1..Len(s)
  OBVIOUS
<1>2. 1 \in 1..Len(s)
  BY <1>1
<1>3. [s EXCEPT ![1] = e] \in Seq(S) /\ Len([s EXCEPT ![1] = e]) = Len(s)
  BY <1>1, <1>2
<1>4. [s EXCEPT ![1] = e] # << >>
  BY <1>1, <1>3
<1> QED
  BY <1>1, <1>2, <1>3, <1>4

LEMMA TypingInit == Init => Typing
  BY BoundsAssumption DEF Init, Typing, TypeOK, AsksOfDex, RowType, States, Versions,
      CoverIds, Phases, AskedPhases

(* Every disjunct of Step but Commit, which alone adds to overtaken.       *)
LEMMA EndTyping ==
    ASSUME Typing, NEW r \in Requests, End(r),
           row' \in [Manga -> RowType], covers' \in [Manga -> SUBSET CoverIds],
           flagged' \in [Manga -> SUBSET CoverIds], UNCHANGED <<details, upstream>>
    PROVE  Typing'
<1>1. /\ at' = [at EXCEPT ![r] = "idle"] /\ queue' = [queue EXCEPT ![r] = << >>]
      /\ seen' = [seen EXCEPT ![r] = {}] /\ held' = [held EXCEPT ![r] = {}]
      /\ credited' = [credited EXCEPT ![r] = 0]
      /\ overtaken' \subseteq overtaken
  BY DEF End, Place
<1>2. << >> \in Seq(ItemType)
  OBVIOUS
<1>3. TypeOK'
  BY <1>1, <1>2 DEF Typing, TypeOK, Phases
<1>4. AsksOfDex'
  BY <1>1 DEF Typing, AsksOfDex, AskedPhases, TypeOK
<1> QED
  BY <1>3, <1>4 DEF Typing

(* A request that goes on has typed locals.                                *)
LEMMA GoingTyping ==
    ASSUME Typing, NEW r \in Requests, NEW phase \in Phases \ {"idle"},
           NEW items \in Seq(ItemType), items # << >>,
           phase \in AskedPhases => \A i \in DOMAIN items : items[i].manga \in Dex,
           at' = [at EXCEPT ![r] = phase],
           queue' = [queue EXCEPT ![r] = items],
           seen' \in [Requests -> SUBSET CoverIds],
           held' \in [Requests -> SUBSET CoverIds], credited' \in [Requests -> Nat],
           row' \in [Manga -> RowType], covers' \in [Manga -> SUBSET CoverIds],
           flagged' \in [Manga -> SUBSET CoverIds],
           details' \in [Manga -> 0..MaxVersion], upstream' = upstream,
           overtaken' \subseteq Requests \X Dex
    PROVE  Typing'
<1>1. TypeOK'
  BY DEF Typing, TypeOK
<1>2. AsksOfDex'
  BY DEF Typing, AsksOfDex, TypeOK
<1> QED
  BY <1>1, <1>2 DEF Typing

(* So is the next manga of a search.                                       *)
LEMMA GoOnTyping ==
    ASSUME Typing, NEW r \in Requests, at[r] \in {"latest", "learning"}, GoOn(r),
           row' \in [Manga -> RowType], UNCHANGED <<details, covers, flagged, upstream>>
    PROVE  Typing'
<1>0. TypeOK /\ AsksOfDex
  BY DEF Typing
<1>1. CASE Len(queue[r]) = 1
  BY <1>0, <1>1, EndTyping DEF GoOn, TypeOK
<1>2. CASE Len(queue[r]) # 1
  <2>1. queue[r] \in Seq(ItemType) /\ queue[r] # << >> /\ Len(queue[r]) \in Nat
    BY <1>0, ThisIsTyped
  <2>2. /\ Tail(queue[r]) \in Seq(ItemType) /\ Len(Tail(queue[r])) = Len(queue[r]) - 1
        /\ \A i \in 1..Len(Tail(queue[r])) : Tail(queue[r])[i] = queue[r][i + 1]
    BY <2>1, HeadTailProperties
  <2>3. Tail(queue[r]) # << >>
    <3>1. Len(queue[r]) # 0
      BY <2>1
    <3>2. Len(Tail(queue[r])) # 0 /\ Len(<< >>) = 0
      BY <1>2, <2>1, <2>2, <3>1
    <3> QED
      BY <3>2
  <2>4. \A i \in DOMAIN queue[r] : queue[r][i].manga \in Dex
    BY <1>0 DEF AsksOfDex, AskedPhases
  <2>5. \A i \in DOMAIN Tail(queue[r]) : Tail(queue[r])[i].manga \in Dex
    BY <2>1, <2>2, <2>4
  <2>6. /\ at' = [at EXCEPT ![r] = "upserting"] /\ queue' = [queue EXCEPT ![r] = Tail(queue[r])]
        /\ UNCHANGED <<seen, held, credited, overtaken>>
    BY <1>2 DEF GoOn, Place, workVars
  <2> QED
    BY <1>0, <2>2, <2>3, <2>5, <2>6, GoingTyping DEF TypeOK, Phases
<1> QED
  BY <1>1, <1>2

(* What a request commits is typed, action by action.                      *)
LEMMA TypingStep == Typing /\ [Next]_vars => Typing'
<1> SUFFICES ASSUME Typing, [Next]_vars
             PROVE  Typing'
  OBVIOUS
<1>0. TypeOK /\ AsksOfDex
  BY DEF Typing
<1> DEFINE Same == UNCHANGED tables
<1>b. ASSUME NEW r \in Requests, NEW phase \in Phases \ {"idle"}, NEW items \in Seq(ItemType),
             items # << >>, phase \in AskedPhases => \A i \in DOMAIN items : items[i].manga \in Dex,
             Begin(r, phase, items)
      PROVE  Typing'
  BY <1>b, <1>0, GoingTyping DEF Begin, Place, tables, workVars, TypeOK
<1>1. ASSUME NEW r \in Requests, NEW m \in Manga, GetStored(r, m)
      PROVE  Typing'
  <2>1. <<Unasked(m)>> \in Seq(ItemType) /\ <<Unasked(m)>> # << >>
    BY ItemIsTyped
  <2>2. \A i \in DOMAIN <<Unasked(m)>> : <<Unasked(m)>>[i].manga \in Dex
    BY <1>1 DEF GetStored, Unasked, Item
  <2>3. Begin(r, "latest", <<Unasked(m)>>)
    BY <1>1 DEF GetStored
  <2> QED
    BY <1>b, <2>1, <2>2, <2>3 DEF Phases
<1>2. ASSUME NEW r \in Requests, NEW ms \in Listings, Ask(r, ms)
      PROVE  Typing'
  <2> DEFINE items == [i \in DOMAIN ms |-> Unasked(ms[i])]
  <2>1. ms \in Seq(Dex) /\ ms # << >>
    BY MangaAssumption
  <2>2. \A i \in DOMAIN ms : ms[i] \in Dex /\ ms[i] \in Manga
    BY <2>1 DEF Manga
  <2>3. DOMAIN ms = 1..Len(ms) /\ Len(ms) \in Nat
    BY <2>1
  <2>4. items \in Seq(ItemType) /\ DOMAIN items = DOMAIN ms
    <3>1. \A i \in DOMAIN ms : Unasked(ms[i]) \in ItemType
      BY <2>2, ItemIsTyped
    <3>2. items \in [1..Len(ms) -> ItemType]
      BY <2>3, <3>1
    <3> QED
      BY <2>3, <3>2, SeqDef
  <2>5. items # << >>
    BY <2>1, <2>3, <2>4
  <2>6. \A i \in DOMAIN items : items[i].manga \in Dex
    BY <2>2, <2>4 DEF Unasked, Item
  <2>7. Begin(r, "fetching", items)
    BY <1>2 DEF Ask
  <2> HIDE DEF items
  <2> QED
    BY <1>b, <2>4, <2>5, <2>6, <2>7 DEF Phases
<1>3. ASSUME NEW r \in Requests, NEW m \in Manga, BeginEdit(r, m)
      PROVE  Typing'
  <2>1. <<Unasked(m)>> \in Seq(ItemType) /\ <<Unasked(m)>> # << >>
    BY ItemIsTyped
  <2>2. PICK phase \in {"deleting", "patching"} : Begin(r, phase, <<Unasked(m)>>)
    BY <1>3 DEF BeginEdit
  <2> QED
    BY <1>b, <2>1, <2>2 DEF Phases, AskedPhases
<1>4. ASSUME NEW r \in Requests, NEW m \in Manga, NEW p \in BOOLEAN, BeginCover(r, m, p)
      PROVE  Typing'
  <2>1. <<Item(m, 0, 0, p)>> \in Seq(ItemType) /\ <<Item(m, 0, 0, p)>> # << >>
    BY ItemIsTyped, BoundsAssumption
  <2>2. Begin(r, IF p THEN "counted" ELSE "inserting", <<Item(m, 0, 0, p)>>)
    BY <1>4 DEF BeginCover
  <2> QED
    BY <1>b, <2>1, <2>2 DEF Phases, AskedPhases
<1>5. ASSUME NEW r \in Requests, Answer(r)
      PROVE  Typing'
  <2> DEFINE items == [i \in DOMAIN queue[r] |->
                           Item(queue[r][i].manga, upstream[queue[r][i].manga], 0, FALSE)]
  <2>1. queue[r] \in Seq(ItemType) /\ queue[r] # << >> /\ at[r] = "fetching"
    BY <1>0, <1>5, ThisIsTyped DEF Answer
  <2>2. /\ DOMAIN queue[r] = 1..Len(queue[r]) /\ Len(queue[r]) \in Nat
        /\ \A i \in DOMAIN queue[r] : queue[r][i].manga \in Dex
    BY <1>0, <2>1 DEF AsksOfDex, AskedPhases
  <2>3. \A i \in DOMAIN queue[r] : items[i] \in ItemType /\ items[i].manga \in Dex
    <3>1. ASSUME NEW m \in Dex
          PROVE  Item(m, upstream[m], 0, FALSE) \in ItemType
      <4>1. m \in Manga /\ upstream[m] \in 0..MaxVersion /\ 0 \in 0..MaxVersion
        BY <1>0, BoundsAssumption DEF TypeOK, Versions, Manga
      <4> QED
        BY <4>1, ItemIsTyped
    <3> QED
      BY <2>2, <3>1 DEF Item
  <2>4. items \in Seq(ItemType) /\ items # << >>
    <3>1. items \in [1..Len(queue[r]) -> ItemType]
      BY <2>2, <2>3
    <3> HIDE DEF items
    <3>2. items \in Seq(ItemType)
      BY <2>2, <3>1, SeqDef
    <3>3. Len(queue[r]) # 0 /\ DOMAIN items = 1..Len(queue[r])
      BY <2>1, <3>1
    <3>4. items # << >>
      BY <2>2, <3>2, <3>3
    <3> QED
      BY <3>2, <3>4
  <2>5. queue' = [queue EXCEPT ![r] = items] /\ at' = [at EXCEPT ![r] = "upserting"]
    BY <1>0, <1>5 DEF Answer, Place, TypeOK
  <2> HIDE DEF items
  <2>6. DOMAIN items = DOMAIN queue[r]
    BY DEF items
  <2> QED
    BY <1>0, <1>5, <2>3, <2>4, <2>5, <2>6, GoingTyping DEF Answer, tables, workVars, TypeOK, Phases
<1>6. ASSUME NEW r \in Requests, AnswerLocally(r) \/ RefusePrimary(r) \/ Deadlock(r) \/ Leave(r)
      PROVE  Typing'
  BY <1>6, <1>0, EndTyping DEF AnswerLocally, RefusePrimary, Deadlock, Leave, tables, TypeOK
<1>7. ASSUME NEW r \in Requests, UpsertRow(r)
      PROVE  Typing'
  <2>1. PICK last \in {0} \cup This(r).version..upstream[ThisManga(r)], cover \in BOOLEAN :
            /\ queue' = [queue EXCEPT ![r][1] = Item(@.manga, @.version, last, cover)]
            /\ at' = [at EXCEPT ![r] = IF cover THEN "clearing" ELSE "crediting"]
            /\ seen' = [seen EXCEPT ![r] = IF cover THEN covers[ThisManga(r)] ELSE {}]
    BY <1>7 DEF UpsertRow, Place
  <2>2. /\ queue[r] \in Seq(ItemType) /\ queue[r] # << >> /\ queue[r][1] = This(r)
        /\ This(r) \in ItemType /\ at[r] = "upserting" /\ 1 \in DOMAIN queue[r]
    BY <1>0, <1>7, ThisIsTyped DEF UpsertRow
  <2>3. \A i \in DOMAIN queue[r] : queue[r][i].manga \in Dex
    BY <1>0, <2>2 DEF AsksOfDex, AskedPhases
  <2>4. ThisManga(r) \in Dex /\ upstream[ThisManga(r)] \in 1..MaxVersion
    BY <1>0, <2>2, <2>3 DEF ThisManga, TypeOK, Versions
  <2>5. last \in 0..MaxVersion
    BY <2>1, <2>2, <2>4, BoundsAssumption DEF ItemType
  <2> DEFINE item == Item(This(r).manga, This(r).version, last, cover)
  <2>6. item \in ItemType /\ item.manga = ThisManga(r)
    BY <2>2, <2>5, ItemIsTyped DEF ItemType, ThisManga, Item
  <2> DEFINE items == [queue[r] EXCEPT ![1] = item]
  <2>7. queue' = [queue EXCEPT ![r] = items]
    BY <1>0, <2>1, <2>2 DEF TypeOK
  <2> HIDE DEF item
  <2>8. /\ items \in Seq(ItemType) /\ items # << >>
        /\ \A i \in DOMAIN items : items[i].manga \in Dex
    BY <2>2, <2>3, <2>4, <2>6, NewSequence
  <2> HIDE DEF items
  <2>9. seen' \in [Requests -> SUBSET CoverIds]
    BY <1>0, <2>1, <2>4 DEF TypeOK, Manga
  <2>10. held' \in [Requests -> SUBSET CoverIds]
    BY <1>0, <1>7 DEF UpsertRow, TypeOK
  <2> QED
    BY <1>0, <1>7, <2>1, <2>7, <2>8, <2>9, <2>10, GoingTyping
    DEF UpsertRow, tables, TypeOK, Phases
<1>8. ASSUME NEW r \in Requests, ClearFlags(r) \/ FlagCover(r) \/ Credit(r) \/ LookForFlags(r)
      PROVE  Typing'
  <2>1. at[r] # "idle" /\ UNCHANGED <<tables, upstream, queue, overtaken>>
    BY <1>8 DEF ClearFlags, FlagCover, Credit, LookForFlags, Rest
  <2>2. \E phase \in Phases \ {"idle"} :
            /\ at' = [at EXCEPT ![r] = phase]
            /\ phase \in AskedPhases => at[r] \in AskedPhases
    BY <1>0, <1>8 DEF ClearFlags, FlagCover, Credit, LookForFlags, Place, Phases,
        AskedPhases, TypeOK
  <2>3. credited' \in [Requests -> Nat]
    <3>1. credited[r] + 1 \in Nat /\ credited \in [Requests -> Nat]
      BY <1>0 DEF TypeOK
    <3>2. credited' = credited \/ credited' = [credited EXCEPT ![r] = credited[r] + 1]
      BY <1>8, <3>1 DEF ClearFlags, FlagCover, Credit, LookForFlags, Rest, workVars
    <3> QED
      BY <3>1, <3>2
  <2>4. seen' \in [Requests -> SUBSET CoverIds]
    <3>1. /\ seen \in [Requests -> SUBSET CoverIds]
          /\ covers \in [Manga -> SUBSET CoverIds] /\ ThisManga(r) \in Manga
      BY <1>0, <2>1, ThisIsTyped DEF TypeOK
    <3>2. seen' = seen \/ seen' = [seen EXCEPT ![r] = covers[ThisManga(r)]]
      BY <1>8 DEF ClearFlags, FlagCover, Credit, LookForFlags, Rest, workVars
    <3> QED
      BY <3>1, <3>2
  <2>5. queue' = [queue EXCEPT ![r] = queue[r]]
    BY <1>0, <2>1 DEF TypeOK
  <2>6. queue[r] \in Seq(ItemType) /\ queue[r] # << >>
    BY <1>0, <2>1, ThisIsTyped
  <2>7. held' \in [Requests -> SUBSET CoverIds]
    <3>1. /\ held \in [Requests -> SUBSET CoverIds]
          /\ seen \in [Requests -> SUBSET CoverIds]
      BY <1>0 DEF TypeOK
    <3>2. held' = held \/ \E c \in seen[r] : held' = [held EXCEPT ![r] = held[r] \cup {c}]
      BY <1>8 DEF ClearFlags, FlagCover, Credit, LookForFlags, Rest, workVars
    <3> QED
      BY <3>1, <3>2
  <2> QED
    BY <1>0, <2>1, <2>2, <2>3, <2>4, <2>5, <2>6, <2>7, GoingTyping DEF tables, TypeOK, AsksOfDex
<1>9. ASSUME NEW r \in Requests, Commit(r)
      PROVE  Typing'
  <2>1. /\ This(r) \in ItemType /\ queue[r] \in Seq(ItemType) /\ queue[r] # << >>
        /\ at[r] = "crediting" /\ queue[r][1] = This(r) /\ 1 \in DOMAIN queue[r]
    BY <1>0, <1>9, ThisIsTyped DEF Commit
  <2>2. \A i \in DOMAIN queue[r] : queue[r][i].manga \in Dex
    BY <1>0, <2>1 DEF AsksOfDex, AskedPhases
  <2>3. ThisManga(r) \in Dex /\ ThisManga(r) \in Manga
    BY <2>1, <2>2 DEF ThisManga, Manga
  <2>4. Upserted(r) \in RowType
    BY <1>0, <2>1, <2>3 DEF Upserted, RowType, States, ItemType, TypeOK
  <2>5. row' \in [Manga -> RowType] /\ details' \in [Manga -> 0..MaxVersion]
    BY <1>0, <1>9, <2>1, <2>4 DEF Commit, TypeOK, ItemType
  <2>6. covers' \in [Manga -> SUBSET CoverIds] /\ flagged' \in [Manga -> SUBSET CoverIds]
    <3>1. DexCover \in CoverIds
      BY BoundsAssumption DEF CoverIds, DexCover
    <3>2. CASE This(r).cover
      <4>1. /\ covers' = [covers EXCEPT ![ThisManga(r)] = @ \cup {DexCover}]
            /\ flagged' = [flagged EXCEPT ![ThisManga(r)] = {DexCover}]
        BY <1>9, <3>2 DEF Commit
      <4> QED
        BY <1>0, <2>3, <3>1, <4>1 DEF TypeOK
    <3>3. CASE ~This(r).cover
      BY <1>0, <1>9, <3>3 DEF Commit, TypeOK
    <3> QED
      BY <3>2, <3>3
  <2>7. overtaken' \subseteq Requests \X Dex
    BY <1>0, <1>9, <2>3 DEF Commit, TypeOK, Late
  <2>8. /\ at' = [at EXCEPT ![r] = "latest"] /\ queue' = [queue EXCEPT ![r] = queue[r]]
        /\ seen' \in [Requests -> SUBSET CoverIds]
        /\ held' \in [Requests -> SUBSET CoverIds] /\ credited' \in [Requests -> Nat]
        /\ upstream' = upstream
    BY <1>0, <1>9 DEF Commit, Place, TypeOK
  <2> QED
    BY <1>0, <2>1, <2>2, <2>5, <2>6, <2>7, <2>8, GoingTyping DEF Phases
<1>10. ASSUME NEW r \in Requests, Loaded(r) \/ Learn(r)
      PROVE  Typing'
  <2>1. CASE Loaded(r)
    BY <1>0, <2>1, GoOnTyping DEF Loaded, tables, TypeOK
  <2>2. CASE Learn(r)
    <3>1. This(r) \in ItemType /\ ThisManga(r) \in Manga /\ at[r] = "learning"
      BY <1>0, <2>2, ThisIsTyped DEF Learn
    <3>2. row' \in [Manga -> RowType]
      <4>1. row[ThisManga(r)] \in RowType /\ This(r).last \in 0..MaxVersion
        BY <1>0, <3>1 DEF TypeOK, ItemType
      <4>2. \A l \in 0..MaxVersion : [row[ThisManga(r)] EXCEPT !.last = l] \in RowType
        BY <4>1 DEF RowType
      <4> DEFINE l == IF row[ThisManga(r)].last = 0 THEN This(r).last
                      ELSE row[ThisManga(r)].last
      <4>3. l \in 0..MaxVersion
        BY <4>1 DEF RowType
      <4>4. row' = [row EXCEPT ![ThisManga(r)] = [row[ThisManga(r)] EXCEPT !.last = l]]
        BY <1>0, <2>2, <3>1 DEF Learn, TypeOK
      <4> HIDE DEF l
      <4> QED
        BY <1>0, <3>1, <4>2, <4>3, <4>4 DEF TypeOK
    <3> QED
      BY <1>0, <2>2, <3>1, <3>2, GoOnTyping, EndTyping DEF Learn, TypeOK
  <2> QED
    BY <1>10, <2>1, <2>2
<1>11. ASSUME NEW r \in Requests, LookUp(r)
      PROVE  Typing'
  <2>1. /\ queue[r] \in Seq(ItemType) /\ queue[r] # << >> /\ queue[r][1] = This(r)
        /\ This(r) \in ItemType /\ at[r] = "latest" /\ 1 \in DOMAIN queue[r]
    BY <1>0, <1>11, ThisIsTyped DEF LookUp
  <2>2. \A i \in DOMAIN queue[r] : queue[r][i].manga \in Dex
    BY <1>0, <2>1 DEF AsksOfDex, AskedPhases
  <2> DEFINE item == Item(This(r).manga, This(r).version, upstream[This(r).manga], This(r).cover)
             items == [queue[r] EXCEPT ![1] = item]
  <2>3. This(r).manga \in Dex /\ upstream[This(r).manga] \in 0..MaxVersion
    BY <1>0, <2>1, <2>2, BoundsAssumption DEF TypeOK, Versions
  <2>4. item \in ItemType /\ item.manga \in Dex
    BY <2>1, <2>3, ItemIsTyped DEF ItemType, Item
  <2>5. queue' = [queue EXCEPT ![r] = items] /\ at' = [at EXCEPT ![r] = "learning"]
    BY <1>0, <1>11, <2>1 DEF LookUp, Place, TypeOK
  <2> HIDE DEF item
  <2>6. /\ items \in Seq(ItemType) /\ items # << >>
        /\ \A i \in DOMAIN items : items[i].manga \in Dex
    BY <2>1, <2>2, <2>4, NewSequence
  <2> HIDE DEF items
  <2> QED
    BY <1>0, <1>11, <2>5, <2>6, GoingTyping DEF LookUp, tables, workVars, TypeOK, Phases
<1>12. ASSUME NEW r \in Requests, EditRow(r) \/ InsertCover(r)
      PROVE  Typing'
  <2>1. CASE EditRow(r)
    <3>1. ThisManga(r) \in Manga
      BY <1>0, <2>1, ThisIsTyped DEF EditRow
    <3>2. row' \in [Manga -> RowType]
      <4>1. row \in [Manga -> RowType]
        BY <1>0 DEF TypeOK
      <4>2. \A s \in {"deleted", "edited"} :
               [row[ThisManga(r)] EXCEPT !.state = s] \in RowType
        BY <3>1, <4>1 DEF RowType, States
      <4> DEFINE new == IF ~Shown(ThisManga(r)) THEN row[ThisManga(r)]
                        ELSE [row[ThisManga(r)] EXCEPT
                                 !.state = IF at[r] = "deleting" THEN "deleted" ELSE "edited"]
      <4>3. new \in RowType
        BY <3>1, <4>1, <4>2
      <4>4. row' = [row EXCEPT ![ThisManga(r)] = new]
        BY <2>1 DEF EditRow
      <4> HIDE DEF new
      <4> QED
        BY <3>1, <4>1, <4>3, <4>4
    <3> QED
      BY <1>0, <2>1, <3>2, EndTyping DEF EditRow, TypeOK
  <2>2. CASE InsertCover(r)
    <3>1. covers' \in [Manga -> SUBSET CoverIds] /\ flagged' \in [Manga -> SUBSET CoverIds]
      <4>1. PICK c \in NewIds(ThisManga(r)) :
                /\ covers' = [covers EXCEPT ![ThisManga(r)] = @ \cup {c}]
                /\ flagged' = [flagged EXCEPT ![ThisManga(r)] =
                                IF This(r).cover THEN {c} ELSE @]
        BY <2>2 DEF InsertCover
      <4>2. c \in CoverIds
        BY BoundsAssumption DEF NewIds, CoverIds
      <4> QED
        BY <1>0, <4>1, <4>2 DEF TypeOK
    <3> QED
      BY <1>0, <2>2, <3>1, EndTyping DEF InsertCover, TypeOK
  <2> QED
    BY <1>12, <2>1, <2>2
<1>13. ASSUME NEW m \in Manual, NEW n \in 0..MaxCovers, NEW p \in SUBSET CoverIds,
              CreateManga(m, n, p)
      PROVE  Typing'
  <2>1. row' \in [Manga -> RowType]
    <3>1. row \in [Manga -> RowType] /\ m \in Manga
      BY <1>0 DEF TypeOK, Manga
    <3>2. [row[m] EXCEPT !.state = "shown"] \in RowType
      BY <3>1 DEF RowType, States
    <3>3. row' = [row EXCEPT ![m] = [row[m] EXCEPT !.state = "shown"]]
      BY <1>13 DEF CreateManga
    <3> QED
      BY <3>1, <3>2, <3>3
  <2>2. covers' \in [Manga -> SUBSET CoverIds] /\ flagged' \in [Manga -> SUBSET CoverIds]
    <3>1. 1..n \subseteq CoverIds /\ p \subseteq CoverIds
      BY BoundsAssumption DEF CoverIds
    <3> QED
      BY <1>0, <1>13, <3>1 DEF CreateManga, TypeOK
  <2> QED
    BY <1>0, <1>13, <2>1, <2>2 DEF CreateManga, requestVars, workVars, Typing, TypeOK, AsksOfDex
<1>14. ASSUME NEW m \in Dex, Publish(m)
      PROVE  Typing'
  <2>1. upstream' \in [Dex -> Versions]
    BY <1>0, <1>14, BoundsAssumption DEF Publish, TypeOK, Versions
  <2> QED
    BY <1>0, <1>14, <2>1 DEF Publish, requestVars, workVars, tables, Typing, TypeOK, AsksOfDex
<1>15. CASE UNCHANGED vars
  BY <1>15, <1>0 DEF vars, tables, requestVars, workVars, Typing, TypeOK, AsksOfDex
<1> QED
  BY <1>1, <1>2, <1>3, <1>4, <1>5, <1>6, <1>7, <1>8, <1>9, <1>10, <1>11, <1>12, <1>13,
     <1>14, <1>15 DEF Next, Step
(* The variables have their types, and only a request at work has locals:  *)
(* so a handler that ends, fails or is dropped leaves nothing behind.      *)
THEOREM TypeCorrect == Spec => []TypeOK
<1>1. Typing => TypeOK
  BY DEF Typing
<1> QED
  BY <1>1, TypingInit, TypingStep, PTL DEF Spec

(***************************************************************************)
(* Deadlocks.                                                              *)
(***************************************************************************)

RowExclusive == \A q, s \in Requests, m \in Manga :
                    HasRow(q, m) /\ HasRow(s, m) => q = s

(* The row of a manga is taken by UpsertRow only.                          *)
LEMMA RowTaken ==
    ASSUME Typing, [Next]_vars, NEW q \in Requests, NEW m \in Manga, HasRow(q, m)'
    PROVE  HasRow(q, m) \/ (UpsertRow(q) /\ m = ThisManga(q))
<1>0. TypeOK
  BY DEF Typing
<1>a. ASSUME at'[q] = at[q], queue'[q] = queue[q]
      PROVE  HasRow(q, m)
  BY <1>a DEF HasRow, Busy, ThisManga, This
<1>b. at'[q] \in {"clearing", "flagging", "crediting"} /\ ThisManga(q)' = m
  BY DEF HasRow, Busy
<1>1. ASSUME NEW r \in Requests, NEW phase \in Phases \ {"clearing", "flagging", "crediting"},
             at' = [at EXCEPT ![r] = phase],
             \A s \in Requests \ {r} : queue'[s] = queue[s]
      PROVE  HasRow(q, m)
  BY <1>0, <1>1, <1>a, <1>b DEF TypeOK
<1>2. ASSUME NEW r \in Requests, ClearFlags(r) \/ FlagCover(r) \/ Credit(r)
      PROVE  HasRow(q, m)
  <2>1. queue' = queue
    BY <1>2 DEF ClearFlags, FlagCover, Credit, Rest
  <2>2. at'[q] # at[q] => at[q] \in {"clearing", "flagging"}
    BY <1>0, <1>2, <1>b DEF ClearFlags, FlagCover, Credit, Place, TypeOK
  <2> QED
    BY <1>a, <1>b, <2>1, <2>2 DEF HasRow, Busy, ThisManga, This
<1>3. ASSUME NEW r \in Requests, UpsertRow(r)
      PROVE  HasRow(q, m) \/ (UpsertRow(q) /\ m = ThisManga(q))
  <2>1. CASE q = r
    <3>1. PICK last, cover : queue' = [queue EXCEPT ![r][1] = Item(@.manga, @.version, last, cover)]
      BY <1>3 DEF UpsertRow
    <3>2. /\ queue[r] \in Seq(ItemType) /\ queue[r] # << >>
          /\ queue[r][1] = This(r) /\ 1 \in DOMAIN queue[r]
      BY <1>0, <1>3, ThisIsTyped DEF UpsertRow
    <3>3. queue'[r] = [queue[r] EXCEPT ![1] = Item(This(r).manga, This(r).version, last, cover)]
      BY <1>0, <3>1, <3>2 DEF TypeOK
    <3>4. queue'[r][1].manga = This(r).manga
      BY <3>2, <3>3 DEF Item
    <3>5. Head(queue'[r]) = queue'[r][1]
      OBVIOUS
    <3> QED
      BY <1>3, <1>b, <2>1, <3>4, <3>5 DEF ThisManga, This
  <2>2. CASE q # r
    <3>1. at'[q] = at[q] /\ queue'[q] = queue[q]
      BY <1>0, <1>3, <2>2 DEF UpsertRow, Place, TypeOK
    <3> QED
      BY <1>a, <3>1
  <2> QED
    BY <2>1, <2>2
<1>4. ASSUME NEW r \in Requests, End(r)
      PROVE  HasRow(q, m)
  BY <1>0, <1>1, <1>4 DEF End, Place, TypeOK, Phases
<1>5. ASSUME NEW r \in Requests, GoOn(r)
      PROVE  HasRow(q, m)
  BY <1>0, <1>1, <1>4, <1>5 DEF GoOn, Place, TypeOK, Phases
<1>6. ASSUME NEW r \in Requests, NEW phase \in Phases \ {"clearing", "flagging", "crediting"},
             NEW items, Begin(r, phase, items)
      PROVE  HasRow(q, m)
  BY <1>0, <1>1, <1>6 DEF Begin, Place, TypeOK
<1>7. ASSUME NEW r \in Requests, NEW n \in Manga, GetStored(r, n) \/ BeginEdit(r, n)
      PROVE  HasRow(q, m)
  BY <1>6, <1>7 DEF GetStored, BeginEdit, Phases
<1>8. ASSUME NEW r \in Requests, NEW ms \in Listings, Ask(r, ms)
      PROVE  HasRow(q, m)
  BY <1>6, <1>8 DEF Ask, Phases
<1>9. ASSUME NEW r \in Requests, NEW n \in Manga, NEW p \in BOOLEAN, BeginCover(r, n, p)
      PROVE  HasRow(q, m)
  BY <1>6, <1>9 DEF BeginCover, Phases
<1>10. ASSUME NEW r \in Requests,
              Answer(r) \/ Commit(r) \/ LookUp(r) \/ LookForFlags(r)
      PROVE  HasRow(q, m)
  BY <1>0, <1>1, <1>10 DEF Answer, Commit, LookUp, LookForFlags, Place, TypeOK, Phases
<1>11. ASSUME NEW r \in Requests,
              \/ AnswerLocally(r) \/ Loaded(r) \/ Learn(r) \/ EditRow(r)
              \/ InsertCover(r) \/ RefusePrimary(r) \/ Deadlock(r) \/ Leave(r)
      PROVE  HasRow(q, m)
  BY <1>4, <1>5, <1>11 DEF AnswerLocally, Loaded, Learn, EditRow, InsertCover,
     RefusePrimary, Deadlock, Leave
<1>12. CASE UNCHANGED requestVars
  BY <1>12, <1>a DEF requestVars, workVars
<1> QED
  BY <1>2, <1>3, <1>7, <1>8, <1>9, <1>10, <1>11, <1>12
  DEF Next, Step, CreateManga, Publish, vars

LEMMA RowExclusiveStep == Typing /\ RowExclusive /\ [Next]_vars => RowExclusive'
<1> SUFFICES ASSUME Typing, RowExclusive, [Next]_vars,
                    NEW q \in Requests, NEW s \in Requests, NEW m \in Manga,
                    HasRow(q, m)', HasRow(s, m)', q # s
             PROVE  FALSE
  BY DEF RowExclusive
<1>1. ASSUME NEW r \in Requests, UpsertRow(r)
      PROVE  \A p \in Requests \ {r} : ~HasRow(p, ThisManga(r)) /\ ~UpsertRow(p)
  <2>1. Blockers(r) = {} /\ at[r] = "upserting"
    BY <1>1 DEF UpsertRow, Free
  <2>2. \A p \in Requests \ {r} : ~HasRow(p, ThisManga(r))
    BY <2>1 DEF Blockers, UpdatesRow
  <2>3. at'[r] \in {"clearing", "crediting"} /\ \A p \in Requests \ {r} : at'[p] = at[p]
    BY <1>1 DEF UpsertRow, Place, Typing, TypeOK
  <2>4. ASSUME NEW p \in Requests \ {r}, UpsertRow(p)
        PROVE  FALSE
    BY <1>1, <2>1, <2>3, <2>4 DEF UpsertRow, Place, Typing, TypeOK
  <2> QED
    BY <2>2, <2>4
<1>2. HasRow(q, m) \/ (UpsertRow(q) /\ m = ThisManga(q))
  BY RowTaken
<1>3. HasRow(s, m) \/ (UpsertRow(s) /\ m = ThisManga(s))
  BY RowTaken
<1> QED
  BY <1>1, <1>2, <1>3 DEF RowExclusive

(* Cover rows are locked by requests that take their flags, or did.        *)
CoverPhases == {"clearing", "flagging", "crediting", "replacing", "inserting"}
HeldWhere == \A q \in Requests : held[q] # {} => at[q] \in CoverPhases

(* Whoever ends or commits gives its locks up.                             *)
LEMMA HeldWhereStep == Typing /\ HeldWhere /\ [Next]_vars => HeldWhere'
<1> SUFFICES ASSUME Typing, HeldWhere, [Next]_vars
             PROVE  HeldWhere'
  OBVIOUS
<1>0. at \in [Requests -> Phases] /\ held \in [Requests -> SUBSET CoverIds]
  BY DEF Typing, TypeOK
<1>1. ASSUME NEW r \in Requests, NEW phase, at' = [at EXCEPT ![r] = phase],
             held' = held, held[r] = {} \/ phase \in CoverPhases
      PROVE  HeldWhere'
  BY <1>0, <1>1 DEF HeldWhere
<1>2. ASSUME NEW r \in Requests, at[r] \notin CoverPhases
      PROVE  held[r] = {}
  BY <1>2 DEF HeldWhere
<1>3. ASSUME NEW r \in Requests, End(r) \/ Commit(r)
      PROVE  HeldWhere'
  <2>1. /\ held' = [held EXCEPT ![r] = {}]
        /\ \A q \in Requests \ {r} : at'[q] = at[q]
    BY <1>0, <1>3 DEF End, Commit, Place
  <2> QED
    BY <1>0, <2>1 DEF HeldWhere
<1>4. ASSUME NEW r \in Requests, at[r] \notin CoverPhases, GoOn(r)
      PROVE  HeldWhere'
  <2>1. CASE End(r)
    BY <1>3, <2>1
  <2>2. CASE Place(r, "upserting") /\ UNCHANGED workVars
    BY <1>1, <1>2, <1>4, <2>2 DEF Place, workVars
  <2> QED
    BY <1>4, <2>1, <2>2 DEF GoOn
<1>5. ASSUME NEW r \in Requests, NEW phase, NEW items, Begin(r, phase, items)
      PROVE  HeldWhere'
  <2>1. at[r] \notin CoverPhases
    BY <1>5 DEF Begin, CoverPhases
  <2> QED
    BY <1>1, <1>2, <1>5, <2>1 DEF Begin, Place, workVars
<1>6. ASSUME NEW r \in Requests, Answer(r) \/ UpsertRow(r) \/ LookUp(r) \/ LookForFlags(r)
      PROVE  HeldWhere'
  <2>1. at[r] \notin CoverPhases /\ held' = held
    BY <1>6 DEF Answer, UpsertRow, LookUp, LookForFlags, CoverPhases, workVars
  <2>2. \E phase : at' = [at EXCEPT ![r] = phase]
    BY <1>6 DEF Answer, UpsertRow, LookUp, LookForFlags, Place
  <2> QED
    BY <1>1, <1>2, <2>1, <2>2
<1>7. ASSUME NEW r \in Requests, ClearFlags(r) \/ FlagCover(r) \/ Credit(r)
      PROVE  HeldWhere'
  <2>1. at[r] \in CoverPhases /\ at'[r] \in CoverPhases
    BY <1>0, <1>7 DEF ClearFlags, FlagCover, Credit, Place, CoverPhases
  <2>2. \A q \in Requests \ {r} : at'[q] = at[q] /\ held'[q] = held[q]
    BY <1>0, <1>7 DEF ClearFlags, FlagCover, Credit, Place, Rest, workVars
  <2> QED
    BY <2>1, <2>2 DEF HeldWhere
<1>8. ASSUME NEW r \in Requests, Loaded(r) \/ Learn(r)
      PROVE  HeldWhere'
  <2>1. at[r] \notin CoverPhases
    BY <1>8 DEF Loaded, Learn, CoverPhases
  <2> QED
    BY <1>3, <1>4, <1>8, <2>1 DEF Loaded, Learn
<1>9. ASSUME NEW r \in Requests,
             \/ AnswerLocally(r) \/ EditRow(r) \/ InsertCover(r)
             \/ RefusePrimary(r) \/ Deadlock(r) \/ Leave(r)
      PROVE  HeldWhere'
  BY <1>3, <1>9 DEF AnswerLocally, EditRow, InsertCover, RefusePrimary, Deadlock, Leave
<1>10. CASE UNCHANGED requestVars
  BY <1>10 DEF requestVars, workVars, HeldWhere
<1>11. (\E m \in Manual, n \in 0..MaxCovers, p \in SUBSET CoverIds : CreateManga(m, n, p))
         \/ (\E m \in Dex : Publish(m)) \/ UNCHANGED vars
       => UNCHANGED requestVars
  BY DEF CreateManga, Publish, vars, requestVars, workVars
<1>12. ASSUME NEW r \in Requests, Step(r) \/ Leave(r)
       PROVE  HeldWhere'
  BY <1>3, <1>6, <1>7, <1>8, <1>9, <1>12 DEF Step
<1>13. ASSUME NEW r \in Requests, NEW m \in Manga, GetStored(r, m) \/ BeginEdit(r, m)
       PROVE  HeldWhere'
  BY <1>5, <1>13 DEF GetStored, BeginEdit
<1>14. ASSUME NEW r \in Requests, NEW ms \in Listings, Ask(r, ms)
       PROVE  HeldWhere'
  BY <1>5, <1>14 DEF Ask
<1>15. ASSUME NEW r \in Requests, NEW m \in Manga, NEW p \in BOOLEAN, BeginCover(r, m, p)
       PROVE  HeldWhere'
  BY <1>5, <1>15 DEF BeginCover
<1> QED
  BY <1>10, <1>11, <1>12, <1>13, <1>14, <1>15 DEF Next

(* In a cycle everybody holds what somebody of it waits for; whom each     *)
(* kind of statement waits for then leaves few kinds.                      *)
LEMMA CycleMembers ==
    ASSUME Typing, RowExclusive, HeldWhere, NEW D \in SUBSET Requests, Cycle(D)
    PROVE  /\ \A q \in D : \E s \in D : s \in Blockers(q)
           /\ \A q \in D : \E s \in D : q \in Blockers(s)
           /\ \A q \in D : at[q] \in {"clearing", "crediting", "replacing", "inserting"}
           /\ \A q, s \in D : s \in Blockers(q) =>
                 /\ at[q] \in {"crediting", "inserting"} => at[s] = "crediting"
                 /\ at[q] \in {"clearing", "replacing"} =>
                       /\ held[s] # {} /\ held[q] # seen[q]
                       /\ ThisManga(s) = ThisManga(q)
<1> DEFINE Wanted == {q \in D : \E s \in D : q \in Blockers(s)}
<1>1. \A q \in D : \E s \in D : s \in Blockers(q)
  BY DEF Cycle, Waiting
<1>2. Waiting(Wanted) /\ Wanted # {}
  <2>1. \A q \in Wanted : \E s \in Wanted : s \in Blockers(q)
    BY <1>1
  <2>2. Wanted # {}
    BY <1>1 DEF Cycle
  <2> QED
    BY <2>1, <2>2 DEF Waiting
<1>3. D = Wanted
  BY <1>2 DEF Cycle
<1>4. \A q \in D : at[q] \in CoverPhases
  <2> SUFFICES ASSUME NEW q \in D, NEW s \in D, q \in Blockers(s)
               PROVE  at[q] \in CoverPhases
    BY <1>3
  <2>1. \/ HasRow(q, ThisManga(s)) \/ HasPrimary(q, ThisManga(s))
        \/ HasCovers(q, ThisManga(s)) # {} \/ HasCreators(q) # {}
    BY DEF Blockers
  <2>2. HasCovers(q, ThisManga(s)) # {} => held[q] # {}
    BY DEF HasCovers
  <2>3. HasCreators(q) # {} => at[q] = "crediting"
    BY DEF HasCreators
  <2> QED
    BY <2>1, <2>2, <2>3 DEF HasRow, HasPrimary, HeldWhere, CoverPhases
<1>5. ASSUME NEW q \in D, NEW s \in D, s \in Blockers(q)
      PROVE  /\ at[q] # "flagging"
             /\ at[q] \in {"crediting", "inserting"} => at[s] = "crediting"
             /\ at[q] \in {"clearing", "replacing"} =>
                   /\ held[s] # {} /\ held[q] # seen[q]
                   /\ ThisManga(s) = ThisManga(q)
  <2>1. q \in Requests /\ s \in Requests /\ q # s
    BY <1>5 DEF Blockers
  <2>2. ThisManga(q) \in Manga
    BY <1>4, <2>1, ThisIsTyped DEF Typing, CoverPhases
  <2>3. HasPrimary(s, ThisManga(q)) => HasRow(s, ThisManga(q)) /\ at[s] = "crediting"
    BY DEF HasPrimary, HasRow
  <2>4. at[q] = "flagging" => FALSE
    <3>1. at[q] = "flagging" => HasRow(q, ThisManga(q)) /\ HasPrimary(s, ThisManga(q))
      BY <1>5 DEF HasRow, Busy, Blockers, UpdatesRow
    <3> QED
      BY <2>1, <2>2, <2>3, <3>1 DEF RowExclusive
  <2>5. at[q] = "inserting" => at[s] = "crediting"
    BY <1>5, <2>3 DEF Blockers, UpdatesRow
  <2>6. at[q] = "crediting" => at[s] = "crediting"
    BY <1>5 DEF Blockers, UpdatesRow, HasCreators
  <2>7. ASSUME at[q] \in {"clearing", "replacing"}
        PROVE  /\ held[s] # {} /\ held[q] # seen[q]
               /\ ThisManga(s) = ThisManga(q)
    <3>1. (seen[q] \ held[q]) \cap HasCovers(s, ThisManga(q)) # {}
      BY <1>5, <2>7 DEF Blockers, UpdatesRow
    <3>2. HasCovers(s, ThisManga(q)) # {} /\ held[q] # seen[q]
      BY <3>1
    <3> QED
      BY <3>2 DEF HasCovers, Busy
  <2> QED
    BY <2>4, <2>5, <2>6, <2>7
<1>6. \A q \in D : at[q] # "flagging"
  BY <1>1, <1>5
<1>7. \A q \in D : \E s \in D : q \in Blockers(s)
  BY <1>3
<1>8. \A q \in D : at[q] \in {"clearing", "crediting", "replacing", "inserting"}
  BY <1>4, <1>6 DEF CoverPhases
<1> QED
  BY <1>1, <1>5, <1>7, <1>8

(* Whoever waits for creators waits for an upsert that does so too: they   *)
(* alone are the cycle, or there are none of them in it.                   *)
LEMMA CreditsSuffice ==
    ASSUME Typing, RowExclusive, HeldWhere, NEW D \in SUBSET Requests, Cycle(D),
           \E q \in D : at[q] \in {"crediting", "inserting"}
    PROVE  \A q \in D : at[q] = "crediting"
<1> DEFINE Crediting == {q \in D : at[q] = "crediting"}
<1>1. /\ \A q \in D : \E s \in D : s \in Blockers(q)
      /\ \A q, s \in D : s \in Blockers(q) =>
            (at[q] \in {"crediting", "inserting"} => at[s] = "crediting")
  BY CycleMembers
<1>2. Crediting # {}
  BY <1>1
<1>3. Waiting(Crediting)
  BY <1>1 DEF Waiting
<1>4. Crediting = D
  BY <1>2, <1>3 DEF Cycle
<1> QED
  BY <1>4

(* The UPDATEs of covers that wait for each other are of one manga.        *)
LEMMA CoversOfOneManga ==
    ASSUME Typing, RowExclusive, HeldWhere, NEW D \in SUBSET Requests, Cycle(D),
           \A q \in D : at[q] \in {"clearing", "replacing"}
    PROVE  \A q, s \in D : ThisManga(q) = ThisManga(s)
<1> SUFFICES ASSUME NEW q \in D
             PROVE  \A s \in D : ThisManga(s) = ThisManga(q)
  OBVIOUS
<1> DEFINE Same == {s \in D : ThisManga(s) = ThisManga(q)}
<1>1. \A p \in Same : \E s \in Same : s \in Blockers(p)
  BY CycleMembers
<1>2. Waiting(Same) /\ Same # {}
  BY <1>1 DEF Waiting
<1>3. Same = D
  BY <1>2 DEF Cycle
<1> QED
  BY <1>3

(* Whatever the manga and the requests: a deadlock is one of upserts over  *)
(* the creators of different manga, or one over the covers of a manga      *)
(* between primary covers added by hand and at most one upsert.            *)
THEOREM DeadlocksAreKnown == Spec => []DeadlocksAreOfTwoKinds
<1>1. Init => RowExclusive /\ HeldWhere
  BY DEF Init, RowExclusive, HasRow, Busy, HeldWhere
<1>2. ASSUME Typing, RowExclusive, HeldWhere, NEW D \in SUBSET Requests, Cycle(D)
      PROVE  \/ \A q, s \in D :
                   at[q] = "crediting" /\ (q # s => ThisManga(q) # ThisManga(s))
             \/ \A q, s \in D :
                   /\ at[q] \in {"clearing", "replacing"} /\ ThisManga(q) = ThisManga(s)
                   /\ q # s => "replacing" \in {at[q], at[s]}
                   /\ held[q] # {} /\ held[q] # seen[q]
  <2>1. CASE \E q \in D : at[q] \in {"crediting", "inserting"}
    <3>1. \A q \in D : at[q] = "crediting"
      BY <1>2, <2>1, CreditsSuffice
    <3>2. ASSUME NEW q \in D, NEW s \in D, q # s
          PROVE  ThisManga(q) # ThisManga(s)
      <4>1. ThisManga(q) \in Manga
        BY <1>2, <3>1, ThisIsTyped DEF Typing
      <4> QED
        BY <1>2, <3>1, <3>2, <4>1 DEF RowExclusive, HasRow, Busy
    <3> QED
      BY <3>1, <3>2
  <2>2. CASE \A q \in D : at[q] \notin {"crediting", "inserting"}
    <3>1. \A q \in D : at[q] \in {"clearing", "replacing"}
      BY <1>2, <2>2, CycleMembers
    <3>2. \A q, s \in D : ThisManga(q) = ThisManga(s)
      BY <1>2, <3>1, CoversOfOneManga
    <3>3. ASSUME NEW q \in D PROVE held[q] # {} /\ held[q] # seen[q]
      <4>1. PICK s \in D : s \in Blockers(q)
        BY <1>2, CycleMembers
      <4>2. PICK t \in D : q \in Blockers(t)
        BY <1>2, CycleMembers
      <4>3. at[q] \in {"clearing", "replacing"} /\ at[t] \in {"clearing", "replacing"}
        BY <3>1
      <4>4. held[q] # seen[q]
        BY <1>2, <4>1, <4>3, CycleMembers
      <4>5. held[q] # {}
        BY <1>2, <4>2, <4>3, CycleMembers
      <4> QED
        BY <4>4, <4>5
    <3>4. ASSUME NEW q \in D, NEW s \in D, q # s, at[q] = "clearing", at[s] = "clearing"
          PROVE  FALSE
      <4>1. ThisManga(q) \in Manga
        BY <1>2, <3>1, ThisIsTyped DEF Typing
      <4> QED
        BY <1>2, <3>2, <3>4, <4>1 DEF RowExclusive, HasRow, Busy
    <3> QED
      BY <3>1, <3>2, <3>3, <3>4
  <2> QED
    BY <2>1, <2>2
<1>3. Typing /\ RowExclusive /\ HeldWhere => DeadlocksAreOfTwoKinds
  BY <1>2 DEF DeadlocksAreOfTwoKinds
<1> QED
  BY <1>1, <1>3, TypingInit, TypingStep, RowExclusiveStep, HeldWhereStep, PTL DEF Spec

(***************************************************************************)
(* How the locals of one request change.                                   *)
(***************************************************************************)

Stays(q) == at'[q] = at[q] /\ queue'[q] = queue[q]
Ends(q) == at'[q] = "idle" /\ queue'[q] = << >>
Starts(q) ==
    /\ at[q] = "idle" /\ at'[q] \in {"latest", "deleting", "patching", "counted", "inserting"}
    /\ \E m \in Manga, b \in BOOLEAN : Shown(m) /\ queue'[q] = <<Item(m, 0, 0, b)>>
Asks(q) ==
    /\ at[q] = "idle" /\ at'[q] = "fetching"
    /\ \A i \in DOMAIN queue'[q] : queue'[q][i].version = 0
Answers(q) ==
    /\ at[q] = "fetching" /\ at'[q] = "upserting"
    /\ queue'[q] = [i \in DOMAIN queue[q] |->
                       Item(queue[q][i].manga, upstream[queue[q][i].manga], 0, FALSE)]
Describes(q) ==
    /\ at[q] = "upserting" /\ at'[q] \in {"clearing", "crediting"}
    /\ \E l \in {0} \cup This(q).version..upstream[ThisManga(q)], c \in BOOLEAN :
          queue'[q] = [queue[q] EXCEPT ![1] = Item(This(q).manga, This(q).version, l, c)]
Advances(q) ==
    /\ queue'[q] = queue[q]
    /\ \/ at[q] = "clearing" /\ at'[q] = "flagging"
       \/ at[q] = "flagging" /\ at'[q] = "crediting"
       \/ at[q] = "crediting" /\ at'[q] = "latest"
       \/ at[q] = "counted" /\ at'[q] = "replacing"
       \/ at[q] = "replacing" /\ at'[q] = "inserting"
LooksUp(q) ==
    /\ at[q] = "latest" /\ at'[q] = "learning"
    /\ queue'[q] = [queue[q] EXCEPT ![1] =
           Item(This(q).manga, This(q).version, upstream[This(q).manga], This(q).cover)]
GoesOn(q) ==
    /\ at[q] \in {"latest", "learning"} /\ at'[q] = "upserting"
    /\ Len(queue[q]) # 1 /\ queue'[q] = Tail(queue[q])

LocalChange(q) ==
    \/ Stays(q) \/ Ends(q) \/ Starts(q) \/ Asks(q) \/ Answers(q) \/ Describes(q)
    \/ Advances(q) \/ LooksUp(q) \/ GoesOn(q)

LEMMA LocalsChange ==
    ASSUME Typing, [Next]_vars, NEW q \in Requests
    PROVE  LocalChange(q)
<1>0. TypeOK
  BY DEF Typing
<1>t. at \in [Requests -> Phases] /\ queue \in [Requests -> Seq(ItemType)]
  BY <1>0 DEF TypeOK
<1>1. ASSUME NEW r \in Requests, End(r)
      PROVE  Stays(q) \/ Ends(q)
  BY <1>t, <1>1 DEF End, Place, Stays, Ends
<1>2. ASSUME NEW r \in Requests, at[r] \in {"latest", "learning"}, GoOn(r)
      PROVE  Stays(q) \/ Ends(q) \/ GoesOn(q)
  <2>1. CASE Len(queue[r]) = 1
    BY <1>1, <1>2, <2>1 DEF GoOn
  <2>2. CASE Len(queue[r]) # 1
    <3>1. at' = [at EXCEPT ![r] = "upserting"] /\ queue' = [queue EXCEPT ![r] = Tail(queue[r])]
      BY <1>2, <2>2 DEF GoOn, Place
    <3> QED
      BY <1>t, <1>2, <2>2, <3>1 DEF Stays, GoesOn
  <2> QED
    BY <2>1, <2>2
<1>3. ASSUME NEW r \in Requests, NEW phase, NEW items, Begin(r, phase, items)
      PROVE  \/ Stays(q)
             \/ q = r /\ at[q] = "idle" /\ at'[q] = phase /\ queue'[q] = items
  BY <1>t, <1>3 DEF Begin, Place, Stays
<1>4. ASSUME NEW r \in Requests, NEW m \in Manga, GetStored(r, m) \/ BeginEdit(r, m)
      PROVE  Stays(q) \/ Starts(q)
  BY <1>3, <1>4 DEF GetStored, BeginEdit, Starts, Unasked
<1>5. ASSUME NEW r \in Requests, NEW m \in Manga, NEW p \in BOOLEAN, BeginCover(r, m, p)
      PROVE  Stays(q) \/ Starts(q)
  <2>1. Begin(r, IF p THEN "counted" ELSE "inserting", <<Item(m, 0, 0, p)>>) /\ Shown(m)
    BY <1>5 DEF BeginCover
  <2>2. \/ Stays(q)
        \/ /\ at[q] = "idle" /\ at'[q] = IF p THEN "counted" ELSE "inserting"
           /\ queue'[q] = <<Item(m, 0, 0, p)>>
    BY <1>3, <2>1
  <2> QED
    BY <2>1, <2>2 DEF Starts
<1>6. ASSUME NEW r \in Requests, NEW ms \in Listings, Ask(r, ms)
      PROVE  Stays(q) \/ Asks(q)
  <2>1. \/ Stays(q)
        \/ /\ at[q] = "idle" /\ at'[q] = "fetching"
           /\ queue'[q] = [i \in DOMAIN ms |-> Unasked(ms[i])]
    BY <1>3, <1>6 DEF Ask
  <2> QED
    BY <2>1 DEF Asks, Unasked, Item
<1>7. ASSUME NEW r \in Requests, Answer(r)
      PROVE  Stays(q) \/ Answers(q)
  <2>1. /\ at' = [at EXCEPT ![r] = "upserting"] /\ at[r] = "fetching"
        /\ queue' = [queue EXCEPT ![r] = [i \in DOMAIN queue[r] |->
               Item(queue[r][i].manga, upstream[queue[r][i].manga], 0, FALSE)]]
    BY <1>7 DEF Answer, Place
  <2> QED
    BY <1>t, <2>1 DEF Stays, Answers
<1>8. ASSUME NEW r \in Requests, UpsertRow(r)
      PROVE  Stays(q) \/ Describes(q)
  <2>1. PICK l \in {0} \cup This(r).version..upstream[ThisManga(r)], c \in BOOLEAN :
            /\ queue' = [queue EXCEPT ![r][1] = Item(@.manga, @.version, l, c)]
            /\ at' = [at EXCEPT ![r] = IF c THEN "clearing" ELSE "crediting"]
    BY <1>8 DEF UpsertRow, Place
  <2>2. queue[r][1] = This(r) /\ at[r] = "upserting"
    BY <1>0, <1>8, ThisIsTyped DEF UpsertRow
  <2>3. queue' = [queue EXCEPT ![r] =
            [queue[r] EXCEPT ![1] = Item(This(r).manga, This(r).version, l, c)]]
    BY <2>1, <2>2, Zenon
  <2>4. CASE q # r
    BY <1>t, <2>1, <2>3, <2>4 DEF Stays
  <2>5. CASE q = r
    <3>1. queue'[q] = [queue[q] EXCEPT ![1] = Item(This(q).manga, This(q).version, l, c)]
      BY <1>t, <2>3, <2>5
    <3>2. at'[q] \in {"clearing", "crediting"}
      BY <1>t, <2>1, <2>5
    <3> QED
      BY <2>1, <2>2, <2>5, <3>1, <3>2, Zenon DEF Describes
  <2> QED
    BY <2>4, <2>5
<1>9. ASSUME NEW r \in Requests,
             ClearFlags(r) \/ FlagCover(r) \/ Credit(r) \/ Commit(r) \/ LookForFlags(r)
      PROVE  Stays(q) \/ Advances(q)
  <2>1. queue' = queue
    BY <1>9 DEF ClearFlags, FlagCover, Credit, Commit, LookForFlags, Rest
  <2> QED
    BY <1>t, <1>9, <2>1 DEF ClearFlags, FlagCover, Credit, Commit, LookForFlags, Place,
       Stays, Advances
<1>10. ASSUME NEW r \in Requests, LookUp(r)
       PROVE  Stays(q) \/ LooksUp(q)
  <2>1. queue[r][1] = This(r) /\ at[r] = "latest"
    BY <1>0, <1>10, ThisIsTyped DEF LookUp
  <2>2. /\ at' = [at EXCEPT ![r] = "learning"]
        /\ queue' = [queue EXCEPT ![r] = [queue[r] EXCEPT ![1] =
               Item(This(r).manga, This(r).version, upstream[This(r).manga], This(r).cover)]]
    BY <1>t, <1>10, <2>1 DEF LookUp, Place
  <2> QED
    BY <1>t, <2>1, <2>2 DEF Stays, LooksUp
<1>11. ASSUME NEW r \in Requests, Loaded(r) \/ Learn(r)
       PROVE  Stays(q) \/ Ends(q) \/ GoesOn(q)
  BY <1>1, <1>2, <1>11 DEF Loaded, Learn
<1>12. ASSUME NEW r \in Requests,
              \/ AnswerLocally(r) \/ EditRow(r) \/ InsertCover(r)
              \/ RefusePrimary(r) \/ Deadlock(r) \/ Leave(r)
       PROVE  Stays(q) \/ Ends(q)
  BY <1>1, <1>12 DEF AnswerLocally, EditRow, InsertCover, RefusePrimary, Deadlock, Leave
<1>13. CASE UNCHANGED requestVars
  BY <1>13 DEF requestVars, workVars, Stays, LocalChange
<1>14. ASSUME NEW r \in Requests, Step(r) \/ Leave(r)
       PROVE  LocalChange(q)
  BY <1>7, <1>8, <1>9, <1>10, <1>11, <1>12, <1>14 DEF Step, LocalChange
<1>15. (\E m \in Manual, n \in 0..MaxCovers, p \in SUBSET CoverIds : CreateManga(m, n, p))
         \/ (\E m \in Dex : Publish(m)) \/ UNCHANGED vars
       => UNCHANGED requestVars
  BY DEF CreateManga, Publish, vars, requestVars, workVars
<1> QED
  BY <1>4, <1>5, <1>6, <1>13, <1>14, <1>15 DEF Next, LocalChange

(***************************************************************************)
(* A manga changes as a whole.                                             *)
(***************************************************************************)

(* What an upsert or a lookup is about to write.                           *)
ItemsReady == \A q \in Requests : \A i \in DOMAIN queue[q] :
    \/ at[q] \in {"upserting", "clearing", "flagging", "crediting"}
    \/ at[q] \in {"latest", "learning"} /\ i > 1
    => queue[q][i].version \in Versions

LastReady == \A q \in Requests :
    /\ at[q] \in {"clearing", "flagging", "crediting"} =>
           This(q).last = 0 \/ This(q).last >= This(q).version
    /\ at[q] = "learning" => This(q).last \in Versions

(* The tables agree on every manga.                                        *)
TablesAgree ==
    /\ \A m \in Manga : details[m] = row[m].version
    /\ \A m \in Manga : flagged[m] = {} \/ \E c \in CoverIds : flagged[m] = {c}
    /\ \A m \in Manual : /\ row[m].version = 0 /\ row[m].last = 0
                         /\ row[m].state = "absent" => flagged[m] = {}
    /\ \A q \in Requests : at[q] \in {"counted", "replacing", "inserting"} =>
           row[ThisManga(q)].state # "absent"

Whole == Typing /\ ItemsReady /\ LastReady /\ TablesAgree

(* Five actions write the tables.                                          *)
LEMMA TablesChange ==
    ASSUME [Next]_vars
    PROVE  \/ UNCHANGED tables
           \/ \E r \in Requests : Commit(r) \/ Learn(r) \/ EditRow(r) \/ InsertCover(r)
           \/ \E m \in Manual, n \in 0..MaxCovers, p \in SUBSET CoverIds : CreateManga(m, n, p)
  BY DEF Next, Step, GetStored, BeginEdit, Ask, BeginCover, Begin, Answer, AnswerLocally,
     UpsertRow, ClearFlags, FlagCover, Credit, Loaded, LookUp, LookForFlags, RefusePrimary,
     Deadlock, Leave, Publish, vars

LEMMA ItemsReadyStep == Whole /\ [Next]_vars => ItemsReady'
<1> SUFFICES ASSUME Whole, [Next]_vars, NEW q \in Requests, NEW i \in DOMAIN queue'[q],
                    \/ at'[q] \in {"upserting", "clearing", "flagging", "crediting"}
                    \/ at'[q] \in {"latest", "learning"} /\ i > 1
             PROVE  queue'[q][i].version \in Versions
  BY DEF ItemsReady
<1>0. Typing /\ ItemsReady /\ TypeOK
  BY DEF Whole, Typing
<1>1. LocalChange(q)
  BY <1>0, LocalsChange
<1>2. CASE Stays(q) \/ Advances(q)
  BY <1>0, <1>2 DEF Stays, Advances, ItemsReady
<1>3. CASE Ends(q) \/ Asks(q)
  BY <1>3 DEF Ends, Asks
<1>4. CASE Starts(q)
  <2>1. PICK m, b : queue'[q] = <<Item(m, 0, 0, b)>>
    BY <1>4 DEF Starts
  <2>2. i = 1
    BY <2>1
  <2>3. at'[q] \in {"latest", "deleting", "patching", "counted", "inserting"}
    BY <1>4 DEF Starts
  <2> QED
    BY <2>2, <2>3
<1>5. CASE Answers(q)
  <2>1. i \in DOMAIN queue[q] /\ queue[q][i].manga \in Dex
    BY <1>0, <1>5 DEF Answers, Typing, AsksOfDex, AskedPhases
  <2> QED
    BY <1>0, <1>5, <2>1 DEF Answers, TypeOK, Item
<1>6. ASSUME NEW l, NEW c, at[q] \in {"upserting", "latest"}, at[q] = "latest" => at'[q] = "learning",
             queue'[q] = [queue[q] EXCEPT ![1] = Item(This(q).manga, This(q).version, l, c)]
      PROVE  queue'[q][i].version \in Versions
  <2>1. i \in DOMAIN queue[q] /\ queue[q][1] = This(q) /\ 1 \in DOMAIN queue[q]
    BY <1>0, <1>6, ThisIsTyped
  <2> QED
    BY <1>0, <1>6, <2>1 DEF ItemsReady, Item
<1>7. CASE Describes(q) \/ LooksUp(q)
  <2>1. at[q] \in {"upserting", "latest"} /\ (at[q] = "latest" => at'[q] = "learning")
    BY <1>7 DEF Describes, LooksUp
  <2>2. \E l, c : queue'[q] = [queue[q] EXCEPT ![1] = Item(This(q).manga, This(q).version, l, c)]
    BY <1>7, Zenon DEF Describes, LooksUp
  <2> QED
    BY <1>6, <2>1, <2>2
<1>8. CASE GoesOn(q)
  <2>1. queue[q] \in Seq(ItemType) /\ queue[q] # << >>
    BY <1>0, <1>8, ThisIsTyped DEF GoesOn
  <2>2. i \in 1..Len(Tail(queue[q])) /\ Tail(queue[q])[i] = queue[q][i + 1]
    BY <1>8, <2>1, HeadTailProperties DEF GoesOn
  <2>3. i + 1 \in DOMAIN queue[q] /\ i + 1 > 1
    BY <2>1, <2>2, HeadTailProperties
  <2> QED
    BY <1>0, <1>8, <2>2, <2>3 DEF GoesOn, ItemsReady
<1> QED
  BY <1>1, <1>2, <1>3, <1>4, <1>5, <1>7, <1>8 DEF LocalChange

LEMMA LastReadyStep == Whole /\ [Next]_vars => LastReady'
<1> SUFFICES ASSUME Whole, [Next]_vars, NEW q \in Requests
             PROVE  /\ at'[q] \in {"clearing", "flagging", "crediting"} =>
                           This(q)'.last = 0 \/ This(q)'.last >= This(q)'.version
                    /\ at'[q] = "learning" => This(q)'.last \in Versions
  BY DEF LastReady
<1>0. Typing /\ LastReady /\ ItemsReady /\ TypeOK
  BY DEF Whole, Typing
<1>1. LocalChange(q)
  BY <1>0, LocalsChange
<1>2. CASE Stays(q) \/ Advances(q)
  BY <1>0, <1>2 DEF Stays, Advances, LastReady, This
<1>3. CASE Ends(q) \/ Asks(q) \/ Starts(q) \/ Answers(q) \/ GoesOn(q)
  BY <1>3 DEF Ends, Asks, Starts, Answers, GoesOn
<1>4. CASE Describes(q)
  <2>1. PICK l \in {0} \cup This(q).version..upstream[ThisManga(q)], c \in BOOLEAN :
            queue'[q] = [queue[q] EXCEPT ![1] = Item(This(q).manga, This(q).version, l, c)]
    BY <1>4 DEF Describes
  <2>2. 1 \in DOMAIN queue[q] /\ This(q) \in ItemType
    BY <1>0, <1>4, ThisIsTyped DEF Describes
  <2>3. This(q)' = Item(This(q).manga, This(q).version, l, c)
    BY <2>1, <2>2 DEF This
  <2>4. l = 0 \/ l >= This(q).version
    BY <2>1, <2>2
  <2> QED
    BY <1>4, <2>3, <2>4 DEF Describes, Item
<1>5. CASE LooksUp(q)
  <2>1. /\ 1 \in DOMAIN queue[q] /\ queue[q][1] = This(q)
        /\ at[q] = "latest" /\ at'[q] = "learning"
    BY <1>0, <1>5, ThisIsTyped DEF LooksUp
  <2>2. This(q).manga \in Dex
    BY <1>0, <2>1 DEF Typing, AsksOfDex, AskedPhases
  <2>3. This(q)'.last = upstream[This(q).manga]
    BY <1>5, <2>1 DEF LooksUp, This, Item
  <2> QED
    BY <1>0, <2>1, <2>2, <2>3 DEF TypeOK
<1> QED
  BY <1>1, <1>2, <1>3, <1>4, <1>5 DEF LocalChange

LEMMA TablesAgreeStep == Whole /\ [Next]_vars => TablesAgree'
<1> SUFFICES ASSUME Whole, [Next]_vars
             PROVE  TablesAgree'
  OBVIOUS
<1>0. Typing /\ TablesAgree /\ TypeOK
  BY DEF Whole, Typing
<1>1. /\ \A m \in Manga : details'[m] = row'[m].version
      /\ \A m \in Manga : flagged'[m] = {} \/ \E c \in CoverIds : flagged'[m] = {c}
      /\ \A m \in Manual : /\ row'[m].version = 0 /\ row'[m].last = 0
                           /\ row'[m].state = "absent" => flagged'[m] = {}
      /\ \A m \in Manga : row'[m].state = "absent" => row[m].state = "absent"
  <2> DEFINE Goal == /\ \A m \in Manga : details'[m] = row'[m].version
                     /\ \A m \in Manga : flagged'[m] = {} \/ \E c \in CoverIds : flagged'[m] = {c}
                     /\ \A m \in Manual : /\ row'[m].version = 0 /\ row'[m].last = 0
                                          /\ row'[m].state = "absent" => flagged'[m] = {}
                     /\ \A m \in Manga : row'[m].state = "absent" => row[m].state = "absent"
  <2>t. /\ row \in [Manga -> RowType] /\ details \in [Manga -> 0..MaxVersion]
        /\ flagged \in [Manga -> SUBSET CoverIds]
    BY <1>0 DEF TypeOK
  <2>m. Manual \subseteq Manga /\ Manual \cap Dex = {} /\ DexCover \in CoverIds
    BY MangaAssumption, BoundsAssumption DEF Manga, DexCover, CoverIds
  <2>1. ASSUME UNCHANGED tables
        PROVE  Goal
    BY <1>0, <2>1 DEF tables, TablesAgree
  <2>2. ASSUME NEW r \in Requests, Commit(r)
        PROVE  Goal
    <3>1. ThisManga(r) \in Dex
      BY <1>0, <2>2, ThisIsTyped DEF Commit, Typing, AsksOfDex, AskedPhases, ThisManga
    <3>2. /\ row' = [row EXCEPT ![ThisManga(r)] = Upserted(r)]
          /\ details' = [details EXCEPT ![ThisManga(r)] = This(r).version]
          /\ flagged' = flagged \/ flagged' = [flagged EXCEPT ![ThisManga(r)] = {DexCover}]
      <4>1. CASE This(r).cover
        BY <2>2, <4>1 DEF Commit
      <4>2. CASE ~This(r).cover
        BY <2>2, <4>2 DEF Commit
      <4> QED
        BY <4>1, <4>2
    <3>3. Upserted(r).version = This(r).version /\ Upserted(r).state = "shown"
      BY DEF Upserted
    <3> QED
      BY <1>0, <2>t, <2>m, <3>1, <3>2, <3>3 DEF TablesAgree
  <2>3. ASSUME NEW r \in Requests, Learn(r)
        PROVE  Goal
    <3>1. ThisManga(r) \in Dex
      BY <1>0, <2>3, ThisIsTyped DEF Learn, Typing, AsksOfDex, AskedPhases, ThisManga
    <3>2. /\ \A m \in Manga : row'[m].version = row[m].version /\ row'[m].state = row[m].state
          /\ \A m \in Manual : row'[m] = row[m]
          /\ UNCHANGED <<details, flagged>>
      BY <2>3, <2>t, <2>m, <3>1 DEF Learn, RowType
    <3> QED
      BY <1>0, <2>m, <3>2 DEF TablesAgree
  <2>4. ASSUME NEW r \in Requests, EditRow(r)
        PROVE  Goal
    <3>1. /\ \A m \in Manga : row'[m].version = row[m].version /\ row'[m].last = row[m].last
          /\ \A m \in Manga : row'[m].state = row[m].state \/ row'[m].state \in {"deleted", "edited"}
          /\ UNCHANGED <<details, flagged>>
      BY <2>4, <2>t DEF EditRow, RowType
    <3>2. ASSUME NEW m \in Manga, row'[m].state # row[m].state
          PROVE  row[m].state # "absent"
      BY <2>4, <2>t, <3>2 DEF EditRow, RowType, Shown
    <3> QED
      BY <1>0, <2>m, <3>1, <3>2 DEF TablesAgree
  <2>5. ASSUME NEW r \in Requests, InsertCover(r)
        PROVE  Goal
    <3>1. PICK c \in NewIds(ThisManga(r)) : flagged' = [flagged EXCEPT ![ThisManga(r)] =
                                                          IF This(r).cover THEN {c} ELSE @]
      BY <2>5 DEF InsertCover
    <3>2. c \in CoverIds
      BY BoundsAssumption DEF NewIds, CoverIds
    <3>3. row[ThisManga(r)].state # "absent" /\ UNCHANGED <<row, details>>
      BY <1>0, <2>5 DEF InsertCover, TablesAgree
    <3> QED
      BY <1>0, <2>t, <2>m, <3>1, <3>2, <3>3 DEF TablesAgree
  <2>6. ASSUME NEW n \in Manual, NEW k \in 0..MaxCovers, NEW p \in SUBSET CoverIds,
               CreateManga(n, k, p)
        PROVE  Goal
    <3>1. p = {} \/ \E c \in CoverIds : p = {c}
      <4>1. IsFiniteSet(CoverIds)
        BY FS_Interval, BoundsAssumption DEF CoverIds
      <4>2. IsFiniteSet(p) /\ Cardinality(p) \in Nat
        BY <4>1, FS_Subset, FS_CardinalityType
      <4>3. Cardinality(p) = 0 \/ Cardinality(p) = 1
        BY <2>6, <4>2 DEF CreateManga
      <4>4. p = {} \/ \E c : p = {c}
        BY <4>2, <4>3, FS_EmptySet, FS_Singleton
      <4> QED
        BY <4>4
    <3>2. /\ flagged' = [flagged EXCEPT ![n] = p] /\ details' = details
          /\ row' = [row EXCEPT ![n].state = "shown"] /\ row[n].state = "absent"
      BY <2>6 DEF CreateManga
    <3>3. /\ \A m \in Manga : row'[m].version = row[m].version /\ row'[m].last = row[m].last
          /\ \A m \in Manga : m # n => row'[m].state = row[m].state
          /\ row'[n].state = "shown"
      BY <2>t, <2>m, <3>2 DEF RowType
    <3> QED
      BY <1>0, <2>t, <2>m, <3>1, <3>2, <3>3 DEF TablesAgree
  <2> HIDE DEF Goal
  <2>7. Goal
    BY <2>1, <2>2, <2>3, <2>4, <2>5, <2>6, TablesChange
  <2> QED
    BY <2>7 DEF Goal
<1>2. ASSUME NEW q \in Requests, at'[q] \in {"counted", "replacing", "inserting"}
      PROVE  row'[ThisManga(q)'].state # "absent"
  <2>1. LocalChange(q)
    BY <1>0, LocalsChange
  <2>2. CASE Stays(q) \/ Advances(q)
    <3>1. /\ at[q] \in {"counted", "replacing", "inserting"} /\ ThisManga(q)' = ThisManga(q)
          /\ ThisManga(q) \in Manga
      BY <1>0, <1>2, <2>2, ThisIsTyped DEF Stays, Advances, ThisManga, This
    <3> QED
      BY <1>0, <1>1, <3>1 DEF TablesAgree
  <2>3. CASE Starts(q)
    <3>1. PICK m \in Manga, b \in BOOLEAN : Shown(m) /\ queue'[q] = <<Item(m, 0, 0, b)>>
      BY <2>3 DEF Starts
    <3>2. ThisManga(q)' = m
      BY <3>1 DEF ThisManga, This, Item
    <3> QED
      BY <1>1, <3>1, <3>2 DEF Shown
  <2>4. ~(Ends(q) \/ Asks(q) \/ Answers(q) \/ Describes(q) \/ LooksUp(q) \/ GoesOn(q))
    BY <1>2 DEF Ends, Asks, Answers, Describes, LooksUp, GoesOn
  <2> QED
    BY <2>1, <2>2, <2>3, <2>4 DEF LocalChange
<1> QED
  BY <1>1, <1>2 DEF TablesAgree

LEMMA WholeInvariant == Spec => []Whole
<1>1. Init => ItemsReady /\ LastReady /\ TablesAgree
  BY DEF Init, ItemsReady, LastReady, TablesAgree, Manga
<1>2. Whole /\ [Next]_vars => Whole'
  BY TypingStep, ItemsReadyStep, LastReadyStep, TablesAgreeStep DEF Whole
<1> QED
  BY <1>1, <1>2, TypingInit, PTL DEF Spec, Whole

(* Every step of the catalog is one of AtomicCatalog's, or none: the       *)
(* twelve statements of an upsert show at its commit only, a deleted manga *)
(* comes back as MangaDex has it, and what a lookup finds overwrites       *)
(* nothing.                                                                *)
THEOREM MangaChangeWhole == Spec => ChangesWhole
<1> DEFINE bar == [m \in Manga |-> EntryOf(m)]
           EntryType == [state : States, last : 0..MaxVersion, edition : Int,
                         primary : {"none", "dex", "manual", "several"}]
<1>1. Init => Atomic!Init
  <2> SUFFICES ASSUME Init
               PROVE  bar = [m \in Manga |-> Atomic!Absent]
    BY DEF Atomic!Init, Atomic!Manga, Manga
  <2> QED
    BY DEF Init, EntryOf, Atomic!Absent
<1>2. Whole /\ [Next]_vars => [Atomic!Next]_bar
  <2> SUFFICES ASSUME Whole, [Next]_vars
               PROVE  Atomic!Next \/ bar' = bar
    OBVIOUS
  <2>0. Typing /\ TypeOK /\ ItemsReady /\ LastReady /\ TablesAgree
    BY DEF Whole, Typing
  <2>t. /\ row \in [Manga -> RowType] /\ details \in [Manga -> 0..MaxVersion]
        /\ flagged \in [Manga -> SUBSET CoverIds]
    BY <2>0 DEF TypeOK
  <2>m. Atomic!Manga = Manga /\ Dex \subseteq Manga /\ Manual \subseteq Manga
    BY DEF Atomic!Manga, Manga
  <2>s. \A c : {c} # {} /\ Cardinality({c}) = 1
    BY FS_Singleton
  <2>e. \A k \in Manga : EntryOf(k) \in EntryType /\ EntryOf(k)' \in EntryType
    <3>1. row' \in [Manga -> RowType] /\ details' \in [Manga -> 0..MaxVersion]
      BY <2>0, TypingStep DEF Typing, TypeOK
    <3> QED
      BY <2>t, <3>1 DEF EntryOf, RowType
  <2>f. ASSUME NEW k \in Manga, details'[k] = details[k], row'[k].version = row[k].version,
               flagged'[k] = flagged[k]
        PROVE  EntryOf(k)'.edition = EntryOf(k).edition /\ EntryOf(k)'.primary = EntryOf(k).primary
    BY <2>f DEF EntryOf
  <2>g. \A k \in Manga : /\ EntryOf(k).state = row[k].state /\ EntryOf(k)'.state = row'[k].state
                         /\ EntryOf(k).last = row[k].last /\ EntryOf(k)'.last = row'[k].last
    BY DEF EntryOf
  <2> HIDE DEF EntryType
  <2>1. CASE UNCHANGED tables
    BY <2>1 DEF tables, EntryOf
  <2>2. ASSUME NEW r \in Requests, Commit(r)
        PROVE  Atomic!Next
    <3>0. PICK m \in Dex : m = ThisManga(r)
      BY <2>0, <2>2, ThisIsTyped DEF Commit, Typing, AsksOfDex, AskedPhases, ThisManga
    <3> DEFINE v == This(r).version
               l == IF This(r).last # 0 THEN This(r).last ELSE row[m].last
               p == IF This(r).cover THEN "dex" ELSE EntryOf(m).primary
    <3>1. /\ m \in Dex /\ m \in Manga /\ This(r) \in ItemType
          /\ at[r] = "crediting" /\ 1 \in DOMAIN queue[r] /\ queue[r][1] = This(r)
      BY <2>0, <2>2, <2>m, ThisIsTyped DEF Commit
    <3>2. v \in 1..MaxVersion /\ (This(r).last = 0 \/ This(r).last >= v)
      BY <2>0, <3>1 DEF ItemsReady, LastReady, Versions
    <3>3. l \in {EntryOf(m).last} \cup v..MaxVersion /\ l \in 0..MaxVersion
      <4>1. EntryOf(m).last = row[m].last /\ row[m].last \in 0..MaxVersion
        BY <2>t, <3>1 DEF EntryOf, RowType
      <4>2. This(r).last \in 0..MaxVersion
        BY <3>1 DEF ItemType
      <4> QED
        BY <3>2, <4>1, <4>2
    <3>4. /\ row' = [row EXCEPT ![m] = [state |-> "shown", version |-> v, last |-> l]]
          /\ details' = [details EXCEPT ![m] = v]
          /\ flagged' = IF This(r).cover THEN [flagged EXCEPT ![m] = {DexCover}] ELSE flagged
      <4>1. CASE This(r).cover
        BY <2>2, <3>0, <4>1 DEF Commit, Upserted
      <4>2. CASE ~This(r).cover
        BY <2>2, <3>0, <4>2 DEF Commit, Upserted
      <4> QED
        BY <4>1, <4>2
    <3>5. \A n \in Manga : n # m => EntryOf(n)' = EntryOf(n)
      BY <2>t, <3>4 DEF EntryOf
    <3>6. EntryOf(m)' = [state |-> "shown", edition |-> v, last |-> l, primary |-> p]
      <4>1. /\ row'[m] = [state |-> "shown", version |-> v, last |-> l] /\ details'[m] = v
            /\ flagged'[m] = IF This(r).cover THEN {DexCover} ELSE flagged[m]
        BY <2>t, <3>1, <3>4
      <4> HIDE DEF v, l
      <4>2. CASE This(r).cover
        BY <2>s, <4>1, <4>2 DEF EntryOf, DexCover
      <4>3. CASE ~This(r).cover
        BY <4>1, <4>3 DEF EntryOf
      <4> QED
        BY <4>2, <4>3
    <3>7. bar' = [bar EXCEPT ![m] = [state |-> "shown", edition |-> v, last |-> l, primary |-> p]]
      BY <3>1, <3>5, <3>6
    <3>8. p \in {bar[m].primary, "dex"} /\ bar[m].last = EntryOf(m).last
      BY <3>1
    <3>9. p \in {"none", "dex", "manual"}
      <4>1. flagged[m] = {} \/ \E c \in CoverIds : flagged[m] = {c}
        BY <2>0, <3>1 DEF TablesAgree
      <4> QED
        BY <2>s, <4>1 DEF EntryOf
    <3> HIDE DEF bar, v, l, p
    <3>10. Atomic!Publish(m, v, l, p)
      BY <3>1, <3>3, <3>7, <3>8 DEF Atomic!Publish, bar
    <3> QED
      BY <2>m, <3>1, <3>2, <3>3, <3>9, <3>10 DEF Atomic!Next, Atomic!Versions
  <2>3. ASSUME NEW r \in Requests, Learn(r)
        PROVE  Atomic!Next \/ bar' = bar
    <3>0. PICK m \in Dex : m = ThisManga(r)
      BY <2>0, <2>3, ThisIsTyped DEF Learn, Typing, AsksOfDex, AskedPhases, ThisManga
    <3> DEFINE l == This(r).last
    <3>1. m \in Manga /\ l \in 1..MaxVersion /\ row[m] \in RowType
      BY <2>0, <2>3, <2>t, <2>m DEF Learn, LastReady, Versions
    <3>2. CASE row[m].last # 0
      <4>1. row' = row
        BY <2>3, <2>t, <3>0, <3>1, <3>2 DEF Learn, RowType
      <4> QED
        BY <2>3, <4>1 DEF Learn, EntryOf
    <3>3. CASE row[m].last = 0
      <4>1. row' = [row EXCEPT ![m].last = l] /\ UNCHANGED <<details, flagged>>
        BY <2>3, <3>0, <3>3 DEF Learn
      <4> HIDE DEF l
      <4>2. \A n \in Manga : n # m => EntryOf(n)' = EntryOf(n)
        BY <2>t, <4>1 DEF EntryOf
      <4>3. EntryOf(m)' = [EntryOf(m) EXCEPT !.last = l]
        <5>1. row'[m].state = row[m].state /\ row'[m].version = row[m].version /\ row'[m].last = l
          BY <2>t, <3>1, <4>1 DEF RowType
        <5> QED
          BY <2>e, <2>f, <2>g, <3>1, <4>1, <5>1 DEF EntryType
      <4>4. bar' = [bar EXCEPT ![m].last = l]
        BY <3>1, <4>2, <4>3
      <4>5. bar[m].last = 0
        BY <3>1, <3>3 DEF EntryOf
      <4> HIDE DEF bar
      <4>6. Atomic!Learn(m, l)
        BY <4>4, <4>5 DEF Atomic!Learn, bar
      <4> QED
        BY <2>m, <3>1, <4>6 DEF Atomic!Next, Atomic!Versions
    <3> QED
      BY <3>2, <3>3
  <2>4. ASSUME NEW r \in Requests, EditRow(r)
        PROVE  Atomic!Next \/ bar' = bar
    <3>0. PICK m \in Manga : m = ThisManga(r)
      BY <2>0, <2>4, ThisIsTyped DEF EditRow
    <3>1. CASE ~Shown(m)
      <4>1. row' = row
        BY <2>4, <2>t, <3>0, <3>1 DEF EditRow
      <4> QED
        BY <2>4, <4>1 DEF EditRow, EntryOf
    <3>2. ASSUME NEW s \in {"deleted", "edited"}, Shown(m), row' = [row EXCEPT ![m].state = s]
          PROVE  Atomic!Next
      <4>1. UNCHANGED <<details, flagged>>
        BY <2>4 DEF EditRow
      <4>2. \A n \in Manga : n # m => EntryOf(n)' = EntryOf(n)
        BY <2>t, <3>2, <4>1 DEF EntryOf
      <4>3. EntryOf(m)' = [EntryOf(m) EXCEPT !.state = s]
        <5>1. row'[m].state = s /\ row'[m].version = row[m].version /\ row'[m].last = row[m].last
          BY <2>t, <3>2 DEF RowType
        <5> QED
          BY <2>e, <2>f, <2>g, <4>1, <5>1 DEF EntryType
      <4>4. bar' = [bar EXCEPT ![m].state = s]
        BY <4>2, <4>3
      <4>5. bar[m].state \in {"shown", "edited"}
        BY <3>2 DEF EntryOf, Shown
      <4> HIDE DEF bar
      <4>6. Atomic!Edit(m) \/ Atomic!Remove(m)
        BY <3>2, <4>4, <4>5 DEF Atomic!Edit, Atomic!Remove, bar
      <4> QED
        BY <2>m, <4>6 DEF Atomic!Next
    <3>3. CASE Shown(m)
      <4>1. row' = [row EXCEPT ![m].state = IF at[r] = "deleting" THEN "deleted" ELSE "edited"]
        BY <2>4, <3>0, <3>3 DEF EditRow
      <4> QED
        BY <3>2, <3>3, <4>1
    <3> QED
      BY <3>1, <3>3
  <2>5. ASSUME NEW r \in Requests, InsertCover(r)
        PROVE  Atomic!Next \/ bar' = bar
    <3>0. PICK m \in Manga : m = ThisManga(r)
      BY <2>0, <2>5, ThisIsTyped DEF InsertCover
    <3>1. PICK c \in NewIds(m) :
              flagged' = [flagged EXCEPT ![m] = IF This(r).cover THEN {c} ELSE flagged[m]]
      BY <2>5, <3>0 DEF InsertCover
    <3>2. UNCHANGED <<row, details>>
      BY <2>5 DEF InsertCover
    <3>3. CASE This(r).cover
      <4>1. c # DexCover /\ flagged'[m] = {c}
        BY <2>t, <3>1, <3>3 DEF NewIds, DexCover
      <4>2. \A n \in Manga : n # m => EntryOf(n)' = EntryOf(n)
        BY <2>t, <3>1, <3>2 DEF EntryOf
      <4>3. EntryOf(m)' = [EntryOf(m) EXCEPT !.primary = "manual"]
        <5>1. {c} # {} /\ {c} # {DexCover} /\ Cardinality({c}) = 1
          BY <2>s, <4>1
        <5>2. EntryOf(m)'.primary = "manual" /\ EntryOf(m)'.edition = EntryOf(m).edition
          BY <3>2, <4>1, <5>1 DEF EntryOf
        <5> QED
          BY <2>e, <2>g, <3>2, <5>2 DEF EntryType
      <4>4. bar' = [bar EXCEPT ![m].primary = "manual"]
        BY <4>2, <4>3
      <4>5. bar[m].state # "absent"
        BY <2>0, <2>5, <3>0 DEF EntryOf, TablesAgree, InsertCover
      <4> HIDE DEF bar
      <4>6. Atomic!ReplacePrimary(m)
        BY <4>4, <4>5 DEF Atomic!ReplacePrimary, bar
      <4> QED
        BY <2>m, <4>6 DEF Atomic!Next
    <3>4. CASE ~This(r).cover
      <4>1. flagged' = flagged
        BY <2>t, <3>1, <3>4
      <4> QED
        BY <3>2, <4>1 DEF EntryOf
    <3> QED
      BY <3>3, <3>4
  <2>6. ASSUME NEW m \in Manual, NEW n \in 0..MaxCovers, NEW p \in SUBSET CoverIds,
               CreateManga(m, n, p)
        PROVE  Atomic!Next
    <3>1. /\ row[m].state = "absent" /\ row' = [row EXCEPT ![m].state = "shown"]
          /\ details' = details /\ flagged' = [flagged EXCEPT ![m] = p]
          /\ p \subseteq 1..n /\ Cardinality(p) <= 1
      BY <2>6 DEF CreateManga
    <3>2. /\ row[m].version = 0 /\ row[m].last = 0 /\ flagged[m] = {} /\ details[m] = 0
          /\ row[m] \in RowType
      BY <2>0, <2>m, <2>t, <3>1 DEF TablesAgree
    <3>3. EntryOf(m) = Atomic!Absent
      BY <3>1, <3>2 DEF EntryOf, Atomic!Absent
    <3>4. p = {} \/ (p # {} /\ p # {DexCover} /\ Cardinality(p) = 1)
      <4>1. IsFiniteSet(p)
        BY <3>1, FS_Interval, FS_Subset
      <4>2. Cardinality(p) \in Nat /\ (Cardinality(p) = 0 <=> p = {})
        BY <4>1, FS_CardinalityType, FS_EmptySet
      <4>3. DexCover \notin p
        BY <3>1 DEF DexCover
      <4> QED
        BY <3>1, <4>2, <4>3
    <3> DEFINE primary == IF p = {} THEN "none" ELSE "manual"
    <3>5. \A k \in Manga : k # m => EntryOf(k)' = EntryOf(k)
      BY <2>t, <3>1 DEF EntryOf
    <3>6. EntryOf(m)' = [EntryOf(m) EXCEPT !.state = "shown", !.primary = primary]
      <4>1. /\ row'[m].state = "shown" /\ row'[m].version = 0 /\ row'[m].last = 0
            /\ details'[m] = 0 /\ flagged'[m] = p
        BY <2>t, <2>m, <3>1, <3>2 DEF RowType
      <4>2. EntryOf(m)'.primary = primary /\ primary \in {"none", "manual"}
        BY <3>4, <4>1 DEF EntryOf
      <4>3. EntryOf(m)'.edition = EntryOf(m).edition
        BY <3>2, <4>1 DEF EntryOf
      <4> HIDE DEF primary
      <4> QED
        <5>1. /\ EntryOf(m) \in EntryType /\ EntryOf(m)' \in EntryType
              /\ EntryOf(m)'.state = "shown" /\ EntryOf(m)'.last = EntryOf(m).last
          BY <2>e, <2>g, <2>m, <3>2, <4>1
        <5> QED
          BY <4>2, <4>3, <5>1 DEF EntryType
    <3>7. bar' = [bar EXCEPT ![m].state = "shown", ![m].primary = primary]
      BY <2>m, <3>5, <3>6
    <3>8. bar[m] = Atomic!Absent
      BY <2>m, <3>3
    <3> HIDE DEF bar
    <3>9. Atomic!Create(m, primary)
      BY <3>7, <3>8 DEF Atomic!Create, bar
    <3> QED
      BY <2>m, <3>9 DEF Atomic!Next
  <2> HIDE DEF bar
  <2> QED
    BY <2>1, <2>2, <2>3, <2>4, <2>5, <2>6, TablesChange
<1> QED
  BY <1>1, <1>2, WholeInvariant, PTL DEF Spec, ChangesWhole, Atomic!Spec

(***************************************************************************)
(* Versions.                                                               *)
(***************************************************************************)

(* What MangaDex answered is not older than what is stored, until another  *)
(* request upserts the manga.                                              *)
AnswersAreNew ==
    /\ \A m \in Dex : row[m].version <= upstream[m]
    /\ \A q \in Requests : \A i \in DOMAIN queue[q] : queue[q][i].version # 0 =>
          /\ queue[q][i].manga \in Dex
          /\ queue[q][i].version <= upstream[queue[q][i].manga]
          /\ <<q, queue[q][i].manga>> \notin overtaken =>
                 row[queue[q][i].manga].version <= queue[q][i].version
    /\ \A q \in Requests : \A i, j \in DOMAIN queue[q] :
          /\ queue[q][i].version # 0 /\ queue[q][j].version # 0
          /\ queue[q][i].manga = queue[q][j].manga
          => queue[q][i].version = queue[q][j].version

LEMMA VersionsChange ==
    ASSUME Whole, [Next]_vars
    PROVE  \/ \E r \in Requests : Commit(r)
           \/ /\ \A m \in Manga : row'[m].version = row[m].version
              /\ \A m \in Dex : upstream'[m] >= upstream[m]
              /\ \A q \in Requests, m \in Dex :
                     Ends(q) \/ (<<q, m>> \in overtaken => <<q, m>> \in overtaken')
<1>0. Typing /\ TypeOK
  BY DEF Whole, Typing
<1>t. /\ row \in [Manga -> RowType] /\ upstream \in [Dex -> Int]
      /\ at \in [Requests -> Phases] /\ queue \in [Requests -> Seq(ItemType)]
  BY <1>0 DEF TypeOK, Versions
<1>1. ASSUME ~\E r \in Requests : Commit(r)
      PROVE  \A m \in Manga : row'[m].version = row[m].version
  <2>1. CASE UNCHANGED tables
    BY <2>1 DEF tables
  <2>2. ASSUME NEW r \in Requests, Learn(r)
        PROVE  \A m \in Manga : row'[m].version = row[m].version
    BY <1>t, <2>2 DEF Learn, RowType
  <2>3. ASSUME NEW r \in Requests, EditRow(r)
        PROVE  \A m \in Manga : row'[m].version = row[m].version
    BY <1>t, <2>3 DEF EditRow, RowType
  <2>4. ASSUME NEW r \in Requests, InsertCover(r)
        PROVE  row' = row
    BY <2>4 DEF InsertCover
  <2>5. ASSUME NEW n \in Manual, NEW k \in 0..MaxCovers, NEW p \in SUBSET CoverIds,
               CreateManga(n, k, p)
        PROVE  \A m \in Manga : row'[m].version = row[m].version
    BY <1>t, <2>5 DEF CreateManga, RowType
  <2> QED
    BY <1>1, <2>1, <2>2, <2>3, <2>4, <2>5, TablesChange
<1>2. \A m \in Dex : upstream'[m] >= upstream[m]
  <2>1. CASE upstream' = upstream
    BY <1>t, <2>1
  <2>2. ASSUME NEW n \in Dex, Publish(n)
        PROVE  \A m \in Dex : upstream'[m] >= upstream[m]
    BY <1>t, <2>2 DEF Publish
  <2>3. upstream' = upstream \/ \E n \in Dex : Publish(n)
    BY DEF Next, Step, GetStored, BeginEdit, Ask, BeginCover, Begin, Answer, AnswerLocally,
       UpsertRow, ClearFlags, FlagCover, Credit, Commit, Loaded, LookUp, Learn, EditRow,
       LookForFlags, InsertCover, RefusePrimary, Deadlock, Leave, CreateManga, vars
  <2> QED
    BY <2>1, <2>2, <2>3
<1>3. ASSUME NEW r \in Requests, End(r)
      PROVE  \A q \in Requests, m \in Dex :
                 Ends(q) \/ (<<q, m>> \in overtaken => <<q, m>> \in overtaken')
  <2>1. Ends(r)
    BY <1>t, <1>3 DEF End, Place, Ends
  <2> QED
    BY <1>3, <2>1 DEF End
<1>4. overtaken' = overtaken \/ (\E r \in Requests : End(r) \/ Commit(r))
  BY DEF Next, Step, GetStored, BeginEdit, Ask, BeginCover, Begin, Answer, AnswerLocally,
     UpsertRow, ClearFlags, FlagCover, Credit, Loaded, LookUp, Learn, EditRow, GoOn, Rest,
     LookForFlags, InsertCover, RefusePrimary, Deadlock, Leave, CreateManga, Publish, vars
<1> QED
  BY <1>1, <1>2, <1>3, <1>4

LEMMA AnswersAreNewStep == Whole /\ AnswersAreNew /\ [Next]_vars => AnswersAreNew'
<1> SUFFICES ASSUME Whole, AnswersAreNew, [Next]_vars
             PROVE  AnswersAreNew'
  OBVIOUS
<1>0. Typing /\ TypeOK /\ ItemsReady
  BY DEF Whole, Typing
<1>t. /\ row \in [Manga -> RowType] /\ upstream \in [Dex -> Int] /\ upstream' \in [Dex -> Int]
      /\ row' \in [Manga -> RowType] /\ Dex \subseteq Manga
  BY <1>0, TypingStep DEF TypeOK, Typing, Versions, Manga
<1>v. \A m \in Manga : row[m].version \in Int /\ row'[m].version \in Int
  BY <1>t DEF RowType
<1>1. ASSUME NEW r \in Requests, Commit(r)
      PROVE  AnswersAreNew'
  <2>1. /\ queue' = queue /\ upstream' = upstream
        /\ at[r] = "crediting" /\ queue[r][1] = This(r) /\ 1 \in DOMAIN queue[r]
    BY <1>0, <1>1, ThisIsTyped DEF Commit
  <2>2. PICK m \in Dex : m = ThisManga(r)
    BY <1>0, <2>1 DEF Typing, AsksOfDex, AskedPhases, ThisManga
  <2>3. /\ row'[m].version = This(r).version
        /\ \A n \in Manga : n # m => row'[n].version = row[n].version
    BY <1>1, <1>t, <2>2 DEF Commit, Upserted
  <2>4. This(r).version # 0 /\ This(r).version <= upstream[m]
    <3>1. queue[r][1].version \in Versions
      BY <1>0, <2>1 DEF ItemsReady
    <3>2. This(r).version # 0 /\ This(r).manga = m
      BY <2>1, <2>2, <3>1 DEF Versions, ThisManga
    <3> QED
      BY <2>1, <3>2 DEF AnswersAreNew
  <2>5. \A n \in Dex : row'[n].version <= upstream'[n]
    BY <1>t, <2>1, <2>3, <2>4 DEF AnswersAreNew
  <2>6. overtaken' = overtaken \cup {<<q, m>> : q \in Late(r, m)}
    BY <1>1, <2>2 DEF Commit
  <2>7. ASSUME NEW q \in Requests, NEW i \in DOMAIN queue[q], queue[q][i].version # 0,
               <<q, queue[q][i].manga>> \notin overtaken'
        PROVE  row'[queue[q][i].manga].version <= queue[q][i].version
    <3>1. queue[q][i].manga \in Dex
      BY <2>7 DEF AnswersAreNew
    <3>2. CASE queue[q][i].manga # m
      BY <1>t, <2>3, <2>6, <2>7, <3>1, <3>2 DEF AnswersAreNew
    <3>3. CASE queue[q][i].manga = m
      <4>1. q = r
        BY <2>6, <2>7, <3>3 DEF Late
      <4>2. queue[q][i].version = This(r).version
        BY <2>1, <2>2, <2>4, <2>7, <3>3, <4>1 DEF AnswersAreNew, ThisManga
      <4>3. row'[m].version <= This(r).version
        BY <1>t, <1>v, <2>3
      <4> QED
        BY <3>3, <4>2, <4>3
    <3> QED
      BY <3>2, <3>3
  <2> QED
    BY <2>1, <2>5, <2>7 DEF AnswersAreNew
<1>2. ASSUME \A m \in Manga : row'[m].version = row[m].version,
             \A m \in Dex : upstream'[m] >= upstream[m],
             \A q \in Requests, m \in Dex :
                 Ends(q) \/ (<<q, m>> \in overtaken => <<q, m>> \in overtaken')
      PROVE  AnswersAreNew'
  <2>1. \A m \in Dex : row'[m].version <= upstream'[m]
    BY <1>2, <1>t, <1>v DEF AnswersAreNew
  <2> DEFINE New(q) ==
         /\ \A i \in DOMAIN queue'[q] : queue'[q][i].version # 0 =>
               /\ queue'[q][i].manga \in Dex
               /\ queue'[q][i].version <= upstream'[queue'[q][i].manga]
               /\ <<q, queue'[q][i].manga>> \notin overtaken' =>
                      row'[queue'[q][i].manga].version <= queue'[q][i].version
         /\ \A i, j \in DOMAIN queue'[q] :
               /\ queue'[q][i].version # 0 /\ queue'[q][j].version # 0
               /\ queue'[q][i].manga = queue'[q][j].manga
               => queue'[q][i].version = queue'[q][j].version
  <2>2. ASSUME NEW q \in Requests, ~Ends(q),
               \A i \in DOMAIN queue'[q] : queue'[q][i].version # 0 =>
                   \E j \in DOMAIN queue[q] :
                       /\ queue[q][j].manga = queue'[q][i].manga
                       /\ queue[q][j].version = queue'[q][i].version
        PROVE  New(q)
    <3>1. ASSUME NEW i \in DOMAIN queue'[q], queue'[q][i].version # 0
          PROVE  /\ queue'[q][i].manga \in Dex
                 /\ queue'[q][i].version <= upstream'[queue'[q][i].manga]
                 /\ <<q, queue'[q][i].manga>> \notin overtaken' =>
                        row'[queue'[q][i].manga].version <= queue'[q][i].version
      <4>1. PICK j \in DOMAIN queue[q] : /\ queue[q][j].manga = queue'[q][i].manga
                                         /\ queue[q][j].version = queue'[q][i].version
        BY <2>2, <3>1
      <4>2. queue[q][j] \in ItemType
        <5>1. queue[q] \in Seq(ItemType)
          BY <1>0 DEF TypeOK
        <5> QED
          BY <5>1
      <4>3. queue[q][j].version \in Int /\ queue[q][j].manga \in Dex
        <5>1. queue[q][j].version \in Int
          BY <4>2, BoundsAssumption DEF ItemType
        <5>2. queue[q][j].version # 0
          BY <3>1, <4>1
        <5> QED
          BY <5>1, <5>2 DEF AnswersAreNew
      <4>4. /\ queue[q][j].version <= upstream[queue[q][j].manga]
            /\ <<q, queue[q][j].manga>> \notin overtaken =>
                   row[queue[q][j].manga].version <= queue[q][j].version
        BY <3>1, <4>1 DEF AnswersAreNew
      <4>5. queue[q][j].version <= upstream'[queue[q][j].manga]
        BY <1>2, <1>t, <4>3, <4>4
      <4>6. <<q, queue[q][j].manga>> \notin overtaken' =>
                row'[queue[q][j].manga].version <= queue[q][j].version
        BY <1>2, <1>t, <2>2, <4>3, <4>4
      <4> QED
        BY <4>1, <4>3, <4>5, <4>6
    <3>2. ASSUME NEW i \in DOMAIN queue'[q], NEW j \in DOMAIN queue'[q],
                 queue'[q][i].version # 0, queue'[q][j].version # 0,
                 queue'[q][i].manga = queue'[q][j].manga
          PROVE  queue'[q][i].version = queue'[q][j].version
      <4>1. PICK k \in DOMAIN queue[q] : /\ queue[q][k].manga = queue'[q][i].manga
                                         /\ queue[q][k].version = queue'[q][i].version
        BY <2>2, <3>2
      <4>2. PICK l \in DOMAIN queue[q] : /\ queue[q][l].manga = queue'[q][j].manga
                                         /\ queue[q][l].version = queue'[q][j].version
        BY <2>2, <3>2
      <4> QED
        BY <3>2, <4>1, <4>2 DEF AnswersAreNew
    <3> QED
      BY <3>1, <3>2
  <2>3. ASSUME NEW q \in Requests
        PROVE  New(q)
    <3>1. LocalChange(q)
      BY <1>0, LocalsChange
    <3>2. CASE Ends(q)
      BY <3>2 DEF Ends
    <3>3. CASE Stays(q) \/ Advances(q)
      <4>1. queue'[q] = queue[q]
        BY <3>3 DEF Stays, Advances
      <4> HIDE DEF New
      <4> QED
        BY <2>2, <3>2, <4>1
    <3>4. CASE Starts(q) \/ Asks(q)
      <4>1. \A i \in DOMAIN queue'[q] : queue'[q][i].version = 0
        <5>1. CASE Starts(q)
          <6>1. PICK m, b : queue'[q] = <<Item(m, 0, 0, b)>>
            BY <5>1 DEF Starts
          <6> QED
            BY <6>1 DEF Item
        <5> QED
          BY <3>4, <5>1 DEF Asks
      <4> QED
        BY <4>1
    <3>5. CASE Answers(q)
      <4>1. at[q] = "fetching" /\ upstream \in [Dex -> Int]
        BY <1>t, <3>5 DEF Answers
      <4>2. \A i \in DOMAIN queue[q] : queue[q][i].manga \in Dex
        BY <1>0, <4>1 DEF Typing, AsksOfDex, AskedPhases
      <4>3. DOMAIN queue'[q] = DOMAIN queue[q]
        BY <3>5 DEF Answers
      <4>4. \A i \in DOMAIN queue[q] :
               /\ queue'[q][i].manga = queue[q][i].manga
               /\ queue'[q][i].version = upstream[queue[q][i].manga]
        BY <3>5 DEF Answers, Item
      <4>5. \A m \in Dex : /\ row'[m].version <= upstream[m] /\ upstream[m] <= upstream'[m]
        BY <1>2, <1>t, <1>v DEF AnswersAreNew
      <4> QED
        BY <4>2, <4>3, <4>4, <4>5
    <3>6. CASE Describes(q) \/ LooksUp(q)
      <4>1. at[q] # "idle"
        BY <3>6 DEF Describes, LooksUp
      <4>2. PICK l, c :
                queue'[q] = [queue[q] EXCEPT ![1] = Item(This(q).manga, This(q).version, l, c)]
        BY <3>6, Zenon DEF Describes, LooksUp
      <4>3. 1 \in DOMAIN queue[q] /\ queue[q][1] = This(q)
        BY <1>0, <4>1, ThisIsTyped
      <4>5. DOMAIN queue'[q] = DOMAIN queue[q]
        BY <4>2
      <4>4. \A i \in DOMAIN queue'[q] :
               /\ queue'[q][i].manga = queue[q][i].manga
               /\ queue'[q][i].version = queue[q][i].version
        BY <4>2, <4>3, <4>5 DEF Item
      <4> HIDE DEF New
      <4> QED
        BY <2>2, <3>2, <4>4, <4>5
    <3>7. CASE GoesOn(q)
      <4>1. queue[q] \in Seq(ItemType) /\ queue[q] # << >>
        BY <1>0, <3>7, ThisIsTyped DEF GoesOn
      <4>2. \A i \in DOMAIN queue'[q] : i + 1 \in DOMAIN queue[q] /\ queue'[q][i] = queue[q][i + 1]
        BY <3>7, <4>1, HeadTailProperties DEF GoesOn
      <4> HIDE DEF New
      <4> QED
        BY <2>2, <3>2, <4>2
    <3> HIDE DEF New
    <3> QED
      BY <3>1, <3>2, <3>3, <3>4, <3>5, <3>6, <3>7 DEF LocalChange
  <2> QED
    BY <2>1, <2>3 DEF AnswersAreNew
<1> QED
  BY <1>1, <1>2, VersionsChange

(* The metadata of a manga goes back only by the commit of a request that  *)
(* another one overtook: without a guard on the version, an upsert writes  *)
(* what MangaDex answered before it waited for the row lock.               *)
THEOREM VersionsGoForward == Spec => OlderOnlyIfOvertaken
<1> DEFINE Older == \A m \in Dex : row'[m].version < row[m].version =>
                        \E r \in Requests : Commit(r) /\ <<r, m>> \in overtaken
<1>1. Init => AnswersAreNew
  BY DEF Init, AnswersAreNew, Manga
<1>2. ASSUME Whole, AnswersAreNew, [Next]_vars
      PROVE  [Older]_vars
  <2>t. row \in [Manga -> RowType] /\ row' \in [Manga -> RowType] /\ Dex \subseteq Manga
    BY <1>2, TypingStep DEF Whole, Typing, TypeOK, Manga
  <2>v. \A m \in Manga : row[m].version \in Int /\ row'[m].version \in Int
    BY <2>t DEF RowType
  <2>1. CASE \A m \in Manga : row'[m].version = row[m].version
    BY <2>1, <2>t, <2>v
  <2>2. ASSUME NEW r \in Requests, Commit(r), NEW m \in Dex,
               row'[m].version < row[m].version
        PROVE  <<r, m>> \in overtaken
    <3>1. at[r] = "crediting" /\ queue[r][1] = This(r) /\ 1 \in DOMAIN queue[r]
      BY <1>2, <2>2, ThisIsTyped DEF Commit, Whole, Typing
    <3>2. /\ row'[ThisManga(r)].version = This(r).version
          /\ \A n \in Manga : n # ThisManga(r) => row'[n].version = row[n].version
      <4>1. ThisManga(r) \in Manga
        BY <1>2, <3>1, ThisIsTyped DEF Whole, Typing
      <4> QED
        BY <2>2, <2>t, <4>1 DEF Commit, Upserted
    <3>3. m = ThisManga(r)
      BY <2>2, <2>t, <2>v, <3>2
    <3>4. This(r).version # 0
      BY <1>2, <3>1 DEF Whole, ItemsReady, Versions
    <3>5. <<r, m>> \notin overtaken => row[m].version <= This(r).version
      BY <1>2, <3>1, <3>3, <3>4 DEF AnswersAreNew, ThisManga
    <3> QED
      BY <2>2, <2>t, <2>v, <3>2, <3>3, <3>5
  <2> QED
    BY <1>2, <2>1, <2>2, VersionsChange
<1> QED
  BY <1>1, <1>2, WholeInvariant, AnswersAreNewStep, PTL DEF Spec, OlderOnlyIfOvertaken

(***************************************************************************)
(* The limit of covers.                                                    *)
(***************************************************************************)

Adders(m) == {q \in Requests : Adds(q, m)}

(* Whoever has counted has a place left, of as many as there are requests. *)
RoomForAdders == \A m \in Manga :
    Cardinality(ByHand(m)) + Cardinality(Adders(m)) <= CoverLimit + Cardinality(Requests) - 1

LEMMA CoversAreFinite ==
    ASSUME TypeOK, NEW m \in Manga
    PROVE  /\ IsFiniteSet(covers[m]) /\ IsFiniteSet(ByHand(m)) /\ IsFiniteSet(Adders(m))
           /\ Cardinality(covers[m]) \in Nat /\ Cardinality(ByHand(m)) \in Nat
           /\ Cardinality(Adders(m)) \in Nat
           /\ Cardinality(ByHand(m)) <= Cardinality(covers[m])
           /\ Cardinality(Requests) \in Nat /\ Cardinality(Adders(m)) <= Cardinality(Requests)
<1>1. covers[m] \subseteq 0..MaxCovers
  BY DEF TypeOK, CoverIds
<1>2. IsFiniteSet(covers[m])
  <2>1. IsFiniteSet(0..MaxCovers)
    BY BoundsAssumption, FS_Interval
  <2> QED
    BY <1>1, <2>1, FS_Subset
<1>3. ByHand(m) \subseteq covers[m] /\ Adders(m) \subseteq Requests
  BY DEF ByHand, Adders
<1> QED
  BY <1>2, <1>3, RequestsAssumption, FS_Subset, FS_CardinalityType

(* Only BeginCover makes a request one that adds a cover.                  *)
LEMMA AddersBegin ==
    ASSUME Whole, [Next]_vars, NEW q \in Requests, NEW m \in Manga,
           ~Adds(q, m), Adds(q, m)'
    PROVE  \E p \in BOOLEAN : BeginCover(q, m, p)
<1>0. Typing /\ TypeOK /\ at \in [Requests -> Phases] /\ queue \in [Requests -> Seq(ItemType)]
  BY DEF Whole, Typing, TypeOK
<1>1. LocalChange(q)
  BY <1>0, LocalsChange
<1>2. /\ at'[q] \in {"counted", "replacing", "inserting"} /\ Head(queue'[q]).manga = m
      /\ ~(at[q] \in {"counted", "replacing", "inserting"} /\ Head(queue[q]).manga = m)
  BY DEF Adds, Busy, ThisManga, This
<1>3. Starts(q)
  <2>1. ~(Stays(q) \/ Advances(q))
    BY <1>2 DEF Stays, Advances
  <2>2. ~(Ends(q) \/ Asks(q) \/ Answers(q))
    BY <1>2 DEF Ends, Asks, Answers
  <2>3. ~(Describes(q) \/ LooksUp(q) \/ GoesOn(q))
    BY <1>2 DEF Describes, LooksUp, GoesOn
  <2> QED
    BY <1>1, <2>1, <2>2, <2>3 DEF LocalChange
<1>4. at[q] = "idle" /\ at'[q] \in {"counted", "inserting"}
  BY <1>2, <1>3 DEF Starts
<1>5. ASSUME NEW r \in Requests, Step(r) \/ Leave(r)
      PROVE  FALSE
  <2>1. at[r] # "idle" \/ End(r)
    BY <1>5 DEF Step, Answer, AnswerLocally, UpsertRow, ClearFlags, FlagCover, Credit, Commit,
       Loaded, LookUp, Learn, EditRow, LookForFlags, InsertCover, RefusePrimary, Deadlock, Leave
  <2>2. \A s \in Requests : s # r => at'[s] = at[s]
    BY <1>0, <1>5 DEF Step, Answer, AnswerLocally, UpsertRow, ClearFlags, FlagCover, Credit, Commit,
       Loaded, LookUp, Learn, EditRow, LookForFlags, InsertCover, RefusePrimary, Deadlock, Leave,
       GoOn, End, Place
  <2>3. CASE End(r)
    BY <1>0, <1>4, <2>3 DEF End, Place
  <2>4. CASE at[r] # "idle"
    BY <1>4, <2>2, <2>4
  <2> QED
    BY <2>1, <2>3, <2>4
<1>6. ASSUME NEW r \in Requests, NEW phase, NEW items, Begin(r, phase, items)
      PROVE  r = q /\ phase \in {"counted", "inserting"} /\ queue'[q] = items
  BY <1>0, <1>4, <1>6 DEF Begin, Place
<1>7. ASSUME NEW r \in Requests, NEW n \in Manga, GetStored(r, n) \/ BeginEdit(r, n)
      PROVE  FALSE
  BY <1>6, <1>7 DEF GetStored, BeginEdit
<1>8. ASSUME NEW r \in Requests, NEW ms \in Listings, Ask(r, ms)
      PROVE  FALSE
  BY <1>6, <1>8 DEF Ask
<1>9. ASSUME NEW r \in Requests, NEW n \in Manga, NEW p \in BOOLEAN, BeginCover(r, n, p)
      PROVE  r = q /\ n = m
  <2>1. r = q /\ queue'[q] = <<Item(n, 0, 0, p)>>
    BY <1>6, <1>9 DEF BeginCover
  <2> QED
    BY <1>2, <2>1 DEF Item
<1>10. UNCHANGED requestVars => FALSE
  BY <1>4 DEF requestVars, workVars
<1>11. (\E n \in Manual, k \in 0..MaxCovers, p \in SUBSET CoverIds : CreateManga(n, k, p))
         \/ (\E n \in Dex : Publish(n)) \/ UNCHANGED vars
       => UNCHANGED requestVars
  BY DEF CreateManga, Publish, vars, requestVars, workVars
<1> QED
  BY <1>5, <1>7, <1>8, <1>9, <1>10, <1>11 DEF Next

LEMMA RoomForAddersStep == Whole /\ RoomForAdders /\ [Next]_vars => RoomForAdders'
<1> SUFFICES ASSUME Whole, RoomForAdders, [Next]_vars, NEW m \in Manga
             PROVE  Cardinality(ByHand(m)') + Cardinality(Adders(m)')
                        <= CoverLimit + Cardinality(Requests) - 1
  BY DEF RoomForAdders, ByHand, Adders
<1>0. TypeOK /\ TypeOK' /\ TablesAgree
  BY TypingStep DEF Whole, Typing
<1>f. /\ IsFiniteSet(ByHand(m)) /\ IsFiniteSet(Adders(m)) /\ IsFiniteSet(covers[m])
      /\ Cardinality(ByHand(m)) \in Nat /\ Cardinality(Adders(m)) \in Nat
      /\ Cardinality(ByHand(m)) <= Cardinality(covers[m]) /\ Cardinality(covers[m]) \in Nat
      /\ Cardinality(Requests) \in Nat /\ CoverLimit \in Nat
      /\ Cardinality(Adders(m)) <= Cardinality(Requests)
  BY <1>0, CoversAreFinite, BoundsAssumption
<1>g. /\ IsFiniteSet(Adders(m)') /\ Cardinality(Adders(m)') \in Nat
      /\ Cardinality(ByHand(m)') \in Nat
      /\ Cardinality(Adders(m)') <= Cardinality(Requests)
  <2>1. Adders(m)' \subseteq Requests /\ covers'[m] \subseteq 0..MaxCovers
    BY <1>0 DEF Adders, TypeOK, CoverIds
  <2>2. IsFiniteSet(0..MaxCovers)
    BY BoundsAssumption, FS_Interval
  <2>3. ByHand(m)' \subseteq 0..MaxCovers
    BY <2>1 DEF ByHand
  <2> QED
    BY <2>1, <2>2, <2>3, RequestsAssumption, FS_Subset, FS_CardinalityType
<1>s. Cardinality(ByHand(m)) + Cardinality(Adders(m)) <= CoverLimit + Cardinality(Requests) - 1
  BY DEF RoomForAdders
<1>t. covers \in [Manga -> SUBSET CoverIds]
  BY <1>0 DEF TypeOK
<1>1. ASSUME ByHand(m)' \subseteq ByHand(m), Adders(m)' \subseteq Adders(m)
      PROVE  Cardinality(ByHand(m)') + Cardinality(Adders(m)')
                 <= CoverLimit + Cardinality(Requests) - 1
  <2>1. Cardinality(ByHand(m)') <= Cardinality(ByHand(m))
    BY <1>f, <1>1, FS_Subset
  <2>2. Cardinality(Adders(m)') <= Cardinality(Adders(m))
    BY <1>f, <1>1, FS_Subset
  <2> QED
    BY <1>f, <1>g, <1>s, <2>1, <2>2
<1>2. ASSUME NEW r \in Requests, NEW n \in Manga, NEW p \in BOOLEAN, BeginCover(r, n, p)
      PROVE  Cardinality(ByHand(m)') + Cardinality(Adders(m)')
                 <= CoverLimit + Cardinality(Requests) - 1
  <2>1. ByHand(m)' = ByHand(m)
    BY <1>2 DEF BeginCover, Begin, tables, ByHand
  <2>2. CASE n = m
    <3>1. Cardinality(ByHand(m)) < CoverLimit
      BY <1>2, <1>f, <2>2 DEF BeginCover, HasRoom
    <3> QED
      BY <1>f, <1>g, <2>1, <3>1
  <2>3. CASE n # m
    <3>1. Adders(m)' \subseteq Adders(m)
      <4>1. ASSUME NEW q \in Requests, Adds(q, m)', ~Adds(q, m)
            PROVE  FALSE
        <5>1. PICK b \in BOOLEAN : BeginCover(q, m, b)
          BY <4>1, AddersBegin
        <5>2. /\ queue' = [queue EXCEPT ![q] = <<Item(m, 0, 0, b)>>] /\ at[q] = "idle"
              /\ at' = [at EXCEPT ![q] = IF b THEN "counted" ELSE "inserting"]
          BY <5>1 DEF BeginCover, Begin, Place
        <5>3. /\ queue' = [queue EXCEPT ![r] = <<Item(n, 0, 0, p)>>] /\ at[r] = "idle"
              /\ at' = [at EXCEPT ![r] = IF p THEN "counted" ELSE "inserting"]
          BY <1>2 DEF BeginCover, Begin, Place
        <5>4. at \in [Requests -> Phases] /\ queue \in [Requests -> Seq(ItemType)]
          BY <1>0 DEF TypeOK
        <5>5. q = r
          BY <5>2, <5>3, <5>4
        <5>6. <<Item(m, 0, 0, b)>> = <<Item(n, 0, 0, p)>>
          BY <5>2, <5>3, <5>4, <5>5
        <5>7. Item(m, 0, 0, b).manga = Item(n, 0, 0, p).manga
          BY <5>6
        <5> QED
          BY <2>3, <5>7 DEF Item
      <4> QED
        BY <4>1 DEF Adders
    <3> QED
      BY <1>1, <2>1, <3>1
  <2> QED
    BY <2>2, <2>3
<1>3. ASSUME ~\E r \in Requests, n \in Manga, p \in BOOLEAN : BeginCover(r, n, p)
      PROVE  Adders(m)' \subseteq Adders(m)
  <2>1. ASSUME NEW q \in Requests, Adds(q, m)', ~Adds(q, m)
        PROVE  FALSE
    BY <1>3, <2>1, AddersBegin
  <2> QED
    BY <2>1 DEF Adders
<1>4. ASSUME NEW r \in Requests, InsertCover(r)
      PROVE  Cardinality(ByHand(m)') + Cardinality(Adders(m)')
                 <= CoverLimit + Cardinality(Requests) - 1
  <2>1. PICK c : covers' = [covers EXCEPT ![ThisManga(r)] = covers[ThisManga(r)] \cup {c}]
    BY <1>4 DEF InsertCover
  <2>2. ~\E q \in Requests, n \in Manga, p \in BOOLEAN : BeginCover(q, n, p)
    <3>1. at[r] = "inserting" /\ at' = [at EXCEPT ![r] = "idle"] /\ at \in [Requests -> Phases]
      BY <1>0, <1>4 DEF InsertCover, End, Place, TypeOK
    <3>2. ASSUME NEW q \in Requests, NEW n \in Manga, NEW p \in BOOLEAN, BeginCover(q, n, p)
          PROVE  FALSE
      <4>1. at[q] = "idle" /\ at' = [at EXCEPT ![q] = IF p THEN "counted" ELSE "inserting"]
        BY <3>2 DEF BeginCover, Begin, Place
      <4> QED
        BY <3>1, <4>1
    <3> QED
      BY <3>2
  <2>3. Adders(m)' \subseteq Adders(m)
    BY <1>3, <2>2
  <2>4. CASE ThisManga(r) # m
    <3>1. ByHand(m)' = ByHand(m)
      BY <1>t, <2>1, <2>4 DEF ByHand
    <3> QED
      BY <1>1, <2>3, <3>1
  <2>5. CASE ThisManga(r) = m
    <3>1. r \in Adders(m) /\ r \notin Adders(m)'
      BY <1>0, <1>4, <2>5 DEF InsertCover, Adders, Adds, Busy, End, Place, TypeOK
    <3>2. Cardinality(Adders(m) \ {r}) = Cardinality(Adders(m)) - 1
      BY <1>f, <3>1, FS_RemoveElement
    <3>3. Adders(m)' \subseteq Adders(m) \ {r} /\ IsFiniteSet(Adders(m) \ {r})
      BY <1>f, <2>3, <3>1, FS_RemoveElement
    <3>4. Cardinality(Adders(m)') <= Cardinality(Adders(m)) - 1
      BY <3>2, <3>3, FS_Subset
    <3>5. ByHand(m)' \subseteq ByHand(m) \cup {c}
      BY <1>t, <2>1, <2>5 DEF ByHand
    <3>6. /\ IsFiniteSet(ByHand(m) \cup {c})
          /\ Cardinality(ByHand(m) \cup {c}) <= Cardinality(ByHand(m)) + 1
      <4>1. c \in ByHand(m) => ByHand(m) \cup {c} = ByHand(m)
        OBVIOUS
      <4>2. c \notin ByHand(m) =>
                /\ IsFiniteSet(ByHand(m) \cup {c})
                /\ Cardinality(ByHand(m) \cup {c}) = Cardinality(ByHand(m)) + 1
        BY <1>f, FS_AddElement
      <4> HIDE DEF ByHand
      <4> QED
        BY <1>f, <4>1, <4>2
    <3>7. Cardinality(ByHand(m)') <= Cardinality(ByHand(m) \cup {c})
      BY <3>5, <3>6, FS_Subset
    <3>8. Cardinality(ByHand(m) \cup {c}) \in Nat
      BY <3>6, FS_CardinalityType
    <3> QED
      BY <1>f, <1>g, <1>s, <3>4, <3>6, <3>7, <3>8
  <2> QED
    BY <2>4, <2>5
<1>5. ASSUME NEW n \in Manual, NEW k \in 0..MaxCovers, NEW p \in SUBSET CoverIds,
             CreateManga(n, k, p)
      PROVE  Cardinality(ByHand(m)') + Cardinality(Adders(m)')
                 <= CoverLimit + Cardinality(Requests) - 1
  <2>1. /\ row[n].state = "absent" /\ covers' = [covers EXCEPT ![n] = 1..k]
        /\ k <= CoverLimit /\ UNCHANGED requestVars
    BY <1>5 DEF CreateManga
  <2>2. Adders(m)' = Adders(m)
    BY <2>1 DEF Adders, Adds, Busy, ThisManga, This, requestVars, workVars
  <2>3. CASE n # m
    <3>1. ByHand(m)' = ByHand(m)
      BY <1>t, <2>1, <2>3 DEF ByHand
    <3> QED
      BY <1>1, <2>2, <3>1
  <2>4. CASE n = m
    <3>1. Adders(m) = {}
      BY <1>0, <2>1, <2>4 DEF Adders, Adds, Busy, TablesAgree
    <3>2. Cardinality(Adders(m)') = 0
      BY <2>2, <3>1, FS_EmptySet
    <3>3. ByHand(m)' \subseteq 1..k
      BY <1>t, <2>1, <2>4 DEF ByHand
    <3>4. IsFiniteSet(1..k) /\ Cardinality(1..k) = k
      BY <1>5, BoundsAssumption, FS_Interval
    <3>5. Cardinality(ByHand(m)') <= k
      BY <3>3, <3>4, FS_Subset
    <3>6. Cardinality(Requests) >= 1
      <4>1. Cardinality(Requests) # 0
        BY RequestsAssumption, FS_EmptySet
      <4> QED
        BY <1>f, <4>1
    <3> QED
      BY <1>5, <1>f, <1>g, <2>1, <3>2, <3>5, <3>6, BoundsAssumption
  <2> QED
    BY <2>3, <2>4
<1>6. ASSUME NEW r \in Requests, Commit(r)
      PROVE  ByHand(m)' \subseteq ByHand(m)
  <2>1. \/ covers' = covers
        \/ covers' = [covers EXCEPT ![ThisManga(r)] = covers[ThisManga(r)] \cup {DexCover}]
    BY <1>6 DEF Commit
  <2> QED
    BY <1>t, <2>1 DEF ByHand
<1>7. (UNCHANGED tables \/ \E r \in Requests : Learn(r) \/ EditRow(r)) => ByHand(m)' = ByHand(m)
  BY DEF tables, Learn, EditRow, ByHand
<1> QED
  BY <1>1, <1>2, <1>3, <1>4, <1>5, <1>6, <1>7, TablesChange

(* The covers added by hand exceed the limit by one less than there are    *)
(* requests: as many as counted before the first of them inserted.         *)
THEOREM CoversBounded == Spec => []OvershootBounded
<1>1. Init => RoomForAdders
  <2> SUFFICES ASSUME Init, NEW m \in Manga
               PROVE  Cardinality(ByHand(m)) + Cardinality(Adders(m))
                          <= CoverLimit + Cardinality(Requests) - 1
    BY DEF RoomForAdders
  <2>1. ByHand(m) = {} /\ Adders(m) = {}
    BY DEF Init, ByHand, Adders, Adds, Busy
  <2>2. Cardinality(ByHand(m)) = 0 /\ Cardinality(Adders(m)) = 0
    BY <2>1, FS_EmptySet
  <2>3. Cardinality(Requests) \in Nat
    BY RequestsAssumption, FS_CardinalityType
  <2> QED
    BY <2>2, <2>3, BoundsAssumption
<1>2. Whole /\ RoomForAdders => OvershootBounded
  <2> SUFFICES ASSUME Whole, RoomForAdders, NEW m \in Manga
               PROVE  Cardinality(ByHand(m)) <= CoverLimit + Cardinality(Requests) - 1
    BY DEF OvershootBounded
  <2>1. Cardinality(ByHand(m)) \in Nat /\ Cardinality(Adders(m)) \in Nat
        /\ Cardinality(Requests) \in Nat
    BY CoversAreFinite DEF Whole, Typing
  <2> QED
    BY <2>1, BoundsAssumption DEF RoomForAdders
<1> QED
  BY <1>1, <1>2, WholeInvariant, RoomForAddersStep, PTL DEF Spec
=============================================================================
