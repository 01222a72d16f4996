--------------------------- MODULE FrontendProofs ---------------------------
(***************************************************************************)
(* What is proved of one part of the frontend holds of the whole: a step   *)
(* of the frontend is a step of the part or leaves it alone.  And the      *)
(* types of the parts, with the bounds that their counters keep.           *)
(***************************************************************************)
EXTENDS Frontend, FormsProofs, PagesProofs

LEMMA ProfileIsAPart == FrontendSpec => ProfileSpec
<1>1. FrontendInit => ProfileInit
  BY DEF FrontendInit
<1>2. [FrontendNext]_frontendVars => [ProfileNext]_profileVars
  <2> SUFFICES ASSUME [FrontendNext]_frontendVars PROVE [ProfileNext]_profileVars
    OBVIOUS
  <2>1. CASE UNCHANGED frontendVars
    BY <2>1 DEF frontendVars, profileVars
  <2>2. CASE part = "profile" /\ ProfileNext
    BY <2>2
  <2>3. CASE UNCHANGED profileVars
    BY <2>3
  <2>4. QED
    BY <2>1, <2>2, <2>3 DEF FrontendNext
<1>3. QED
  BY <1>1, <1>2, PTL DEF FrontendSpec, ProfileSpec

LEMMA ListIsAPart == FrontendSpec => ListSpec
<1>1. FrontendInit => ListInit
  BY DEF FrontendInit
<1>2. [FrontendNext]_frontendVars => [ListNext]_listVars
  <2> SUFFICES ASSUME [FrontendNext]_frontendVars PROVE [ListNext]_listVars
    OBVIOUS
  <2>1. CASE UNCHANGED frontendVars
    BY <2>1 DEF frontendVars, listVars
  <2>2. CASE part = "list" /\ ListNext
    BY <2>2
  <2>3. CASE UNCHANGED listVars
    BY <2>3
  <2>4. QED
    BY <2>1, <2>2, <2>3 DEF FrontendNext
<1>3. QED
  BY <1>1, <1>2, PTL DEF FrontendSpec, ListSpec

LEMMA BulkIsAPart == FrontendSpec => BulkSpec
<1>1. FrontendInit => BulkInit
  BY DEF FrontendInit
<1>2. [FrontendNext]_frontendVars => [BulkNext]_bulkVars
  <2> SUFFICES ASSUME [FrontendNext]_frontendVars PROVE [BulkNext]_bulkVars
    OBVIOUS
  <2>1. CASE UNCHANGED frontendVars
    BY <2>1 DEF frontendVars, bulkVars
  <2>2. CASE part = "bulk" /\ BulkNext
    BY <2>2
  <2>3. CASE UNCHANGED bulkVars
    BY <2>3
  <2>4. QED
    BY <2>1, <2>2, <2>3 DEF FrontendNext
<1>3. QED
  BY <1>1, <1>2, PTL DEF FrontendSpec, BulkSpec

LEMMA UpdateIsAPart == FrontendSpec => UpdateSpec
<1>1. FrontendInit => UpdateInit
  BY DEF FrontendInit
<1>2. [FrontendNext]_frontendVars => [UpdateNext]_updateVars
  <2> SUFFICES ASSUME [FrontendNext]_frontendVars PROVE [UpdateNext]_updateVars
    OBVIOUS
  <2>1. CASE UNCHANGED frontendVars
    BY <2>1 DEF frontendVars, updateVars
  <2>2. CASE part = "update" /\ UpdateNext
    BY <2>2
  <2>3. CASE UNCHANGED updateVars
    BY <2>3
  <2>4. QED
    BY <2>1, <2>2, <2>3 DEF FrontendNext
<1>3. QED
  BY <1>1, <1>2, PTL DEF FrontendSpec, UpdateSpec

LEMMA ImportIsAPart == FrontendSpec => ImportsSpec
<1>1. FrontendInit => ImportsInit
  BY DEF FrontendInit
<1>2. [FrontendNext]_frontendVars => [ImportsNext]_importVars
  <2> SUFFICES ASSUME [FrontendNext]_frontendVars PROVE [ImportsNext]_importVars
    OBVIOUS
  <2>1. CASE UNCHANGED frontendVars
    BY <2>1 DEF frontendVars, importVars
  <2>2. CASE part = "import" /\ ImportsNext
    BY <2>2
  <2>3. CASE UNCHANGED importVars
    BY <2>3
  <2>4. QED
    BY <2>1, <2>2, <2>3 DEF FrontendNext
<1>3. QED
  BY <1>1, <1>2, PTL DEF FrontendSpec, ImportsSpec

LEMMA SearchIsAPart == FrontendSpec => SearchSpec
<1>1. FrontendInit => SearchInit
  BY DEF FrontendInit
<1>2. [FrontendNext]_frontendVars => [SearchNext]_searchVars
  <2> SUFFICES ASSUME [FrontendNext]_frontendVars PROVE [SearchNext]_searchVars
    OBVIOUS
  <2>1. CASE UNCHANGED frontendVars
    BY <2>1 DEF frontendVars, searchVars
  <2>2. CASE part = "search" /\ SearchNext
    BY <2>2
  <2>3. CASE UNCHANGED searchVars
    BY <2>3
  <2>4. QED
    BY <2>1, <2>2, <2>3 DEF FrontendNext
<1>3. QED
  BY <1>1, <1>2, PTL DEF FrontendSpec, SearchSpec

LEMMA AdminIsAPart == FrontendSpec => AdminSpec
<1>1. FrontendInit => AdminInit
  BY DEF FrontendInit
<1>2. [FrontendNext]_frontendVars => [AdminNext]_adminVars
  <2> SUFFICES ASSUME [FrontendNext]_frontendVars PROVE [AdminNext]_adminVars
    OBVIOUS
  <2>1. CASE UNCHANGED frontendVars
    BY <2>1 DEF frontendVars, adminVars
  <2>2. CASE part = "admin" /\ AdminNext
    BY <2>2
  <2>3. CASE UNCHANGED adminVars
    BY <2>3
  <2>4. QED
    BY <2>1, <2>2, <2>3 DEF FrontendNext
<1>3. QED
  BY <1>1, <1>2, PTL DEF FrontendSpec, AdminSpec

LEMMA CacheIsAPart == FrontendSpec => CacheSpec
<1>1. FrontendInit => CacheInit
  BY DEF FrontendInit
<1>2. [FrontendNext]_frontendVars => [CacheNext]_cacheVars
  <2> SUFFICES ASSUME [FrontendNext]_frontendVars PROVE [CacheNext]_cacheVars
    OBVIOUS
  <2>1. CASE UNCHANGED frontendVars
    BY <2>1 DEF frontendVars, cacheVars
  <2>2. CASE part = "cache" /\ CacheNext
    BY <2>2
  <2>3. CASE UNCHANGED cacheVars
    BY <2>3
  <2>4. QED
    BY <2>1, <2>2, <2>3 DEF FrontendNext
<1>3. QED
  BY <1>1, <1>2, PTL DEF FrontendSpec, CacheSpec

LEMMA RolesIsAPart == FrontendSpec => RolesSpec
<1>1. FrontendInit => RolesInit
  BY DEF FrontendInit
<1>2. [FrontendNext]_frontendVars => [RolesNext]_roleVars
  <2> SUFFICES ASSUME [FrontendNext]_frontendVars PROVE [RolesNext]_roleVars
    OBVIOUS
  <2>1. CASE UNCHANGED frontendVars
    BY <2>1 DEF frontendVars, roleVars
  <2>2. CASE part = "roles" /\ RolesNext
    BY <2>2
  <2>3. CASE UNCHANGED roleVars
    BY <2>3
  <2>4. QED
    BY <2>1, <2>2, <2>3 DEF FrontendNext
<1>3. QED
  BY <1>1, <1>2, PTL DEF FrontendSpec, RolesSpec

LEMMA FormIsAPart == FrontendSpec => FormsSpec
<1>1. FrontendInit => FormsInit
  BY DEF FrontendInit
<1>2. [FrontendNext]_frontendVars => [FormsNext]_formVars
  <2> SUFFICES ASSUME [FrontendNext]_frontendVars PROVE [FormsNext]_formVars
    OBVIOUS
  <2>1. CASE UNCHANGED frontendVars
    BY <2>1 DEF frontendVars, formVars
  <2>2. CASE part = "form" /\ FormsNext
    BY <2>2
  <2>3. CASE UNCHANGED formVars
    BY <2>3
  <2>4. QED
    BY <2>1, <2>2, <2>3 DEF FrontendNext
<1>3. QED
  BY <1>1, <1>2, PTL DEF FrontendSpec, FormsSpec

-----------------------------------------------------------------------------
(* The query cache: its types are an invariant as they stand.              *)
LEMMA CacheStarts == CacheInit => CacheTypeOK
<1> SUFFICES ASSUME CacheInit PROVE CacheTypeOK
  OBVIOUS
<1>1. query \in Query /\ mutation \in Mutations
  BY PairsAssumption DEF CacheInit
<1>2. PICK busy \in BOOLEAN : db = [ver |-> 1, busy |-> busy]
  <2>1. {FALSE, (query \in PolledWhileBusy)} \subseteq BOOLEAN
    OBVIOUS
  <2>2. QED
    BY <2>1, Zenon DEF CacheInit
<1>3. db \in [ver : 1 .. MaxVersion, busy : BOOLEAN]
  BY <1>2, BoundsAssumption
<1>4. /\ cache \in [ver : 0 .. MaxVersion, busy : BOOLEAN]
      /\ fetch \in [st : {"idle", "sent", "answered"}, retry : BOOLEAN,
                    snap : [ver : 0 .. MaxVersion, busy : BOOLEAN]]
  BY BoundsAssumption DEF CacheInit, Nothing, Idle
<1>5. own \in 0 .. MaxVersion /\ losses \in 0 .. MaxLost /\ moves \in 0 .. MaxMoves
  BY BoundsAssumption DEF CacheInit
<1>6. QED
  BY <1>1, <1>3, <1>4, <1>5, Zenon DEF CacheInit, CacheTypeOK

LEMMA CacheStays == CacheTypeOK /\ [CacheNext]_cacheVars => CacheTypeOK'
<1> SUFFICES ASSUME CacheTypeOK, [CacheNext]_cacheVars PROVE CacheTypeOK'
  OBVIOUS
<1> DEFINE Seen == [ver : 0 .. MaxVersion, busy : BOOLEAN]
           Fetched == [st : {"idle", "sent", "answered"}, retry : BOOLEAN, snap : Seen]
<1>1. UNCHANGED <<query, mutation>>
  BY DEF CacheNext, cacheVars, Mount, Unmount, Age, Focus, Poll, AnswerFetch, EndFetch, LoseFetch,
     Mutate, Commit, Fail, Invalidate, SetData, Succeed, OthersWrite, WorkEnds
<1>2. db \in [ver : 1 .. MaxVersion, busy : BOOLEAN] /\ db \in Seen
  BY BoundsAssumption DEF CacheTypeOK
<1>3. fetch \in Fetched /\ fetch.snap \in Seen /\ cache \in Seen /\ own \in 0 .. MaxVersion
  BY DEF CacheTypeOK
<1>4. Idle \in Fetched /\ \A retry \in BOOLEAN : Sent(retry) \in Fetched
  <2>1. Nothing \in Seen
    BY BoundsAssumption DEF Nothing
  <2> HIDE DEF Seen
  <2>2. QED
    BY <2>1 DEF Idle, Sent
<1>5. fetch' \in Fetched
  <2>1. CASE fetch' = fetch \/ fetch' = Idle \/ fetch' = Sent(FALSE) \/ fetch' = Sent(TRUE)
    BY <1>3, <1>4, <2>1
  <2>2. CASE AnswerFetch
    <3> HIDE DEF Seen
    <3>1. QED
      BY <1>2, <1>3, <2>2 DEF AnswerFetch
  <2>3. QED
    BY <2>1, <2>2 DEF CacheNext, cacheVars, Mount, Unmount, Age, Focus, Poll, EndFetch,
       LoseFetch, Mutate, Commit, Fail, Invalidate, SetData, Succeed, OthersWrite, WorkEnds, Fetch
<1>6. db' \in [ver : 1 .. MaxVersion, busy : BOOLEAN]
  <2>1. CASE Written /\ db.ver < MaxVersion
    BY <1>2, <2>1, BoundsAssumption DEF Written
  <2>2. CASE WorkEnds
    BY <1>2, <2>2 DEF WorkEnds
  <2>3. CASE UNCHANGED db
    BY <1>2, <2>3
  <2>4. QED
    BY <2>1, <2>2, <2>3 DEF CacheNext, cacheVars, Mount, Unmount, Age, Focus, Poll, AnswerFetch,
       EndFetch, LoseFetch, Mutate, Commit, Fail, Invalidate, SetData, Succeed, OthersWrite
<1>7. cache' \in Seen /\ own' \in 0 .. MaxVersion
  <2>1. CASE EndFetch \/ UNCHANGED <<cache, own>>
    BY <1>3, <2>1 DEF EndFetch
  <2>2. CASE SetData
    BY <1>2, <1>3, <2>2 DEF SetData
  <2>3. CASE Commit \/ Fail
    BY <1>2, <1>3, <2>3, BoundsAssumption DEF Commit, Fail
  <2>4. QED
    BY <2>1, <2>2, <2>3 DEF CacheNext, cacheVars, Mount, Unmount, Age, Focus, Poll, AnswerFetch,
       LoseFetch, Mutate, Invalidate, Succeed, OthersWrite, WorkEnds
<1>8. /\ old' \in {"fresh", "stale", "invalid"}
      /\ call' \in {"idle", "sent", "committed", "done", "failed"}
  BY DEF CacheTypeOK, CacheNext, cacheVars, Mount, Unmount, Age, Focus, Poll, AnswerFetch, EndFetch,
     LoseFetch, Mutate, Commit, Fail, Invalidate, SetData, Succeed, OthersWrite, WorkEnds
<1>9. mounted' \in BOOLEAN /\ missed' \in BOOLEAN
  BY Zenon DEF CacheTypeOK, CacheNext, cacheVars, Mount, Unmount, Age, Focus, Poll, AnswerFetch,
     EndFetch, LoseFetch, Mutate, Commit, Fail, Invalidate, SetData, Succeed, OthersWrite, WorkEnds,
     Fetching
<1>10. losses' \in 0 .. MaxLost /\ moves' \in 0 .. MaxMoves
  <2>1. losses' = losses \/ (losses < MaxLost /\ losses' = losses + 1)
    BY DEF CacheNext, cacheVars, Mount, Unmount, Age, Focus, Poll, AnswerFetch, EndFetch,
       LoseFetch, Mutate, Commit, Fail, Invalidate, SetData, Succeed, OthersWrite, WorkEnds
  <2>2. moves' = moves \/ (moves < MaxMoves /\ moves' = moves + 1)
    BY DEF CacheNext, cacheVars, Mount, Unmount, Age, Focus, Poll, AnswerFetch, EndFetch,
       LoseFetch, Mutate, Commit, Fail, Invalidate, SetData, Succeed, OthersWrite, WorkEnds
  <2>3. QED
    BY <2>1, <2>2, BoundsAssumption DEF CacheTypeOK
<1>11. QED
  BY <1>1, <1>5, <1>6, <1>7, <1>8, <1>9, <1>10 DEF CacheTypeOK

LEMMA CacheIsTyped == CacheSpec => []CacheTypeOK
  BY CacheStarts, CacheStays, PTL DEF CacheSpec

-----------------------------------------------------------------------------
(* Roles.                                                                  *)
LEMMA RolesAreTyped == RolesSpec => []RolesTypeOK
<1>1. RolesInv => RolesTypeOK
  BY DEF RolesInv, RolesTypeOK
<1>2. QED
  BY <1>1, InitRoles, StepRoles, PTL DEF RolesSpec

-----------------------------------------------------------------------------
(* Searches.                                                               *)
LEMMA SearchStarts == SearchInit => SearchTypeOK
<1> SUFFICES ASSUME SearchInit PROVE SearchTypeOK
  OBVIOUS
<1>1. /\ searchView \in Searched /\ {typed, applied} \subseteq Words /\ timer \in BOOLEAN
      /\ choice \in Options /\ pageNo \in Nat /\ pageLen \in Length /\ logRows \subseteq LogRow
  BY SearchViewsAssumption DEF SearchInit
<1>2. CurrentKey \in [word : Words, choice : Options, page : Nat, len : Length]
  BY <1>1 DEF CurrentKey, Key
<1>3. asked \subseteq {CurrentKey} /\ DOMAIN answers = {}
  BY DEF SearchInit
<1>4. QED
  BY <1>1, <1>2, <1>3 DEF SearchTypeOK

\* A render asks for a key of the types of what it shows.
LEMMA ShownIsTyped ==
  ASSUME SearchTypeOK, NEW w \in Words, NEW c \in Options, NEW p \in Nat, NEW n \in Length,
         ShowKey(w, c, p, n), typed' \in Words, timer' \in BOOLEAN
  PROVE  SearchTypeOK'
<1>1. Key(w, c, p, n) \in [word : Words, choice : Options, page : Nat, len : Length]
  BY DEF Key
<1>2. asked' \subseteq asked \cup {Key(w, c, p, n)} /\ asked \subseteq asked'
  BY DEF ShowKey
<1>3. QED
  BY <1>1, <1>2 DEF SearchTypeOK, ShowKey

LEMMA SearchStays == SearchTypeOK /\ [SearchNext]_searchVars => SearchTypeOK'
<1> SUFFICES ASSUME SearchTypeOK, [SearchNext]_searchVars PROVE SearchTypeOK'
  OBVIOUS
<1>1. /\ typed \in Words /\ applied \in Words /\ timer \in BOOLEAN
      /\ choice \in Options /\ pageNo \in Nat /\ pageLen \in Length
  BY DEF SearchTypeOK
<1>2. CASE UNCHANGED searchVars
  BY <1>2 DEF searchVars, SearchTypeOK
<1>3. ASSUME NEW w \in Words, Type(w) PROVE SearchTypeOK'
  <2>1. typed' \in Words /\ timer' \in BOOLEAN
    BY <1>3 DEF Type
  <2>2. ShowKey(w, choice, 0, pageLen) \/ ShowKey(applied, choice, pageNo, pageLen)
    <3>1. IF searchView.applies = "at once" THEN ShowKey(w, choice, 0, pageLen)
                                            ELSE ShowKey(applied, choice, pageNo, pageLen)
      BY <1>3 DEF Type
    <3>2. QED
      BY <3>1, Zenon
  <2>3. QED
    BY <1>1, <2>1, <2>2, ShownIsTyped
<1>4. CASE Apply
  BY <1>1, <1>4, ShownIsTyped DEF Apply
<1>5. ASSUME NEW c \in Options, Choose(c) PROVE SearchTypeOK'
  BY <1>1, <1>5, ShownIsTyped DEF Choose
<1>6. ASSUME NEW p \in 0 .. Cardinality(LogRow), TurnPage(p) PROVE SearchTypeOK'
  <2>1. p \in Nat
    <3>1. IsFiniteSet(LogRow)
      BY SearchViewsAssumption
    <3>2. Cardinality(LogRow) \in Nat
      BY <3>1, FS_CardinalityType
    <3>3. QED
      BY <3>2
  <2>2. QED
    BY <1>1, <1>6, <2>1, ShownIsTyped DEF TurnPage
<1>7. ASSUME NEW n \in Length, SetLength(n) PROVE SearchTypeOK'
  BY <1>1, <1>7, ShownIsTyped DEF SetLength
<1>8. ASSUME NEW k \in asked, AnswerKey(k) PROVE SearchTypeOK'
  BY <1>8 DEF AnswerKey, SearchTypeOK
<1>9. ASSUME NEW rs \in SUBSET LogRow, ChangeRows(rs) PROVE SearchTypeOK'
  BY <1>9 DEF ChangeRows, SearchTypeOK
<1>10. QED
  BY <1>2, <1>3, <1>4, <1>5, <1>6, <1>7, <1>8, <1>9 DEF SearchNext

LEMMA SearchIsTyped == SearchSpec => []SearchTypeOK
  BY SearchStarts, SearchStays, PTL DEF SearchSpec

-----------------------------------------------------------------------------
(* Admin tabs.                                                             *)
\* Who is saving waits for a save of its visit.
AdminTypes ==
    /\ adminTab \in {"backups", "integrations"} /\ acts \in 0 .. MaxActs /\ visit \in 1 .. acts + 1
    /\ confirmOpen \in BOOLEAN /\ confirmText \in {NoText, "CONFIRM"}
    /\ {settings, kept} \subseteq [Section -> 0 .. 1] /\ saving \in BOOLEAN /\ saved \in BOOLEAN
    /\ saves \in Seq([settings : [Section -> 0 .. 1], visit : Nat])
    /\ saving => \E i \in DOMAIN saves : saves[i].visit = visit

LEMMA AdminStarts == AdminInit => AdminTypes
<1> SUFFICES ASSUME AdminInit PROVE AdminTypes
  OBVIOUS
<1>1. /\ adminTab \in {"backups", "integrations"} /\ acts = 0 /\ visit = 1
      /\ confirmText = NoText /\ saves = <<>>
      /\ settings = kept /\ kept = [s \in Section |-> 0]
  BY DEF AdminInit
<1>2. kept \in [Section -> 0 .. 1]
  BY <1>1
<1>3. confirmOpen \in BOOLEAN /\ saving \in BOOLEAN /\ saved \in BOOLEAN /\ ~saving
  BY Zenon DEF AdminInit
<1>4. QED
  BY <1>1, <1>2, <1>3, AdminTabsAssumption DEF AdminTypes

LEMMA AdminStays == AdminTypes /\ [AdminNext]_adminVars => AdminTypes'
<1> SUFFICES ASSUME AdminTypes, [AdminNext]_adminVars PROVE AdminTypes'
  OBVIOUS
<1> DEFINE SaveType == [settings : [Section -> 0 .. 1], visit : Nat]
<1>1. /\ acts \in Nat /\ acts <= MaxActs /\ visit \in Nat /\ visit >= 1 /\ visit <= acts + 1
      /\ settings \in [Section -> 0 .. 1] /\ kept \in [Section -> 0 .. 1] /\ saves \in Seq(SaveType)
      /\ saving \in BOOLEAN /\ saved \in BOOLEAN /\ confirmOpen \in BOOLEAN
  BY AdminTabsAssumption DEF AdminTypes
\* The backups change nothing of the settings.
<1>2. ASSUME UNCHANGED <<adminTab, visit, settingsTab>>, acts' = acts \/ Act("backups"),
             confirmOpen' \in BOOLEAN, confirmText' \in {NoText, "CONFIRM"}
      PROVE  AdminTypes'
  BY <1>1, <1>2, AdminTabsAssumption DEF AdminTypes, settingsTab, Act
\* The settings change nothing of the backups.
<1>3. ASSUME UNCHANGED <<adminTab, visit, backupTab>>, acts' = acts \/ Act("integrations"),
             settings' \in [Section -> 0 .. 1], kept' \in [Section -> 0 .. 1],
             saving' \in BOOLEAN, saved' \in BOOLEAN, saves' \in Seq(SaveType),
             saving' => \E i \in DOMAIN saves' : saves'[i].visit = visit
      PROVE  AdminTypes'
  BY <1>1, <1>3, AdminTabsAssumption DEF AdminTypes, backupTab, Act
<1> HIDE DEF SaveType
<1>4. CASE UNCHANGED adminVars
  BY <1>2, <1>4 DEF adminVars, AdminTypes, backupTab
<1>5. ASSUME NEW t \in {"backups", "integrations"}, GoToTab(t) PROVE AdminTypes'
  <2>1. /\ adminTab' = t /\ acts' = acts + 1 /\ acts < MaxActs /\ visit' = visit + 1
        /\ confirmText' = NoText /\ settings' = kept /\ UNCHANGED <<kept, saves>>
    BY <1>5 DEF GoToTab
  <2>2. confirmOpen' \in BOOLEAN /\ saving' \in BOOLEAN /\ saved' \in BOOLEAN /\ ~saving'
    BY <1>5, Zenon DEF GoToTab
  <2>3. QED
    BY <1>1, <2>1, <2>2, AdminTabsAssumption DEF AdminTypes, SaveType
<1>6. ASSUME NEW f, ChooseFile(f) PROVE AdminTypes'
  BY <1>2, <1>6 DEF ChooseFile, AdminTypes
<1>7. ASSUME NEW open \in BOOLEAN, ShowConfirm(open) PROVE AdminTypes'
  BY <1>2, <1>7 DEF ShowConfirm, AdminTypes
<1>8. CASE TypeConfirm \/ PressRestore
  BY <1>2, <1>8 DEF TypeConfirm, PressRestore, AdminTypes
<1>9. ASSUME NEW i \in DOMAIN restores, QueueRestore(i) \/ SucceedRestore(i) \/ FailRestore(i)
      PROVE  AdminTypes'
  <2>1. confirmOpen' \in BOOLEAN /\ confirmText' \in {NoText, "CONFIRM"}
    <3>1. confirmOpen' = confirmOpen \/ confirmOpen' = (confirmOpen /\ ~(restores[i].visit = visit))
      BY <1>9, Zenon DEF QueueRestore, SucceedRestore, FailRestore
    <3>2. confirmText' = confirmText \/ confirmText' = NoText
      BY <1>9, Zenon DEF QueueRestore, SucceedRestore, FailRestore
    <3>3. QED
      BY <1>1, <3>1, <3>2 DEF AdminTypes
  <2>2. UNCHANGED <<adminTab, visit, settingsTab, acts>>
    BY <1>9 DEF QueueRestore, SucceedRestore, FailRestore
  <2>3. QED
    BY <1>2, <2>1, <2>2
<1>10. ASSUME NEW s \in Section, NEW value \in 0 .. 1, EditSection(s, value) PROVE AdminTypes'
  <2>1. settings' \in [Section -> 0 .. 1] /\ saved' \in BOOLEAN
    BY <1>1, <1>10 DEF EditSection
  <2>2. QED
    BY <1>1, <1>3, <1>10, <2>1 DEF EditSection, AdminTypes
<1>11. CASE PressSave
  <2>1. [settings |-> settings, visit |-> visit] \in SaveType
    BY <1>1 DEF SaveType
  <2>2. /\ saves' \in Seq(SaveType) /\ Len(saves') = Len(saves) + 1 /\ Len(saves) \in Nat
        /\ saves'[Len(saves')].visit = visit /\ Len(saves') \in DOMAIN saves'
    BY <1>1, <1>11, <2>1 DEF PressSave
  <2>3. QED
    BY <1>1, <1>3, <1>11, <2>2 DEF PressSave
<1>12. CASE FinishSave
  <2>1. saves # <<>> /\ saves' = Tail(saves) /\ kept' = Head(saves).settings
    BY <1>12 DEF FinishSave
  <2>2. saving' = (saving /\ Head(saves).visit # visit)
        /\ saved' = (saved \/ Head(saves).visit = visit)
    BY <1>12 DEF FinishSave
  <2>3. /\ saves' \in Seq(SaveType) /\ Head(saves) = saves[1] /\ saves[1] \in SaveType
        /\ Len(saves') = Len(saves) - 1
        /\ \A i \in 1 .. Len(saves) - 1 : saves'[i] = saves[i + 1]
    BY <1>1, <2>1
  <2>4. kept' \in [Section -> 0 .. 1]
    BY <2>1, <2>3 DEF SaveType
  <2>5. ASSUME saving' PROVE \E i \in DOMAIN saves' : saves'[i].visit = visit
    <3>1. saving /\ saves[1].visit # visit
      BY <2>2, <2>3, <2>5
    <3>2. PICK i \in DOMAIN saves : saves[i].visit = visit
      BY <3>1 DEF AdminTypes
    <3>3. i - 1 \in DOMAIN saves' /\ saves'[i - 1] = saves[i]
      BY <1>1, <2>3, <3>1, <3>2
    <3>4. QED
      BY <3>2, <3>3
  <2>6. saving' \in BOOLEAN /\ saved' \in BOOLEAN
    BY <2>2
  <2>7. UNCHANGED <<adminTab, visit, backupTab, settings, acts>>
    BY <1>12 DEF FinishSave
  <2>8. QED
    BY <1>1, <1>3, <2>3, <2>4, <2>5, <2>6, <2>7
<1>13. CASE ForgetSaved
  BY <1>1, <1>3, <1>13 DEF ForgetSaved, AdminTypes
<1>14. QED
  BY <1>4, <1>5, <1>6, <1>7, <1>8, <1>9, <1>10, <1>11, <1>12, <1>13 DEF AdminNext

LEMMA AdminIsTyped == AdminSpec => []AdminTypeOK
<1>1. RestoreInv /\ AdminTypes => AdminTypeOK
  <2> SUFFICES ASSUME RestoreInv, AdminTypes PROVE AdminTypeOK
    OBVIOUS
  <2>1. \A i \in DOMAIN restores : restores[i] \in RestoreType
    BY DEF RestoreInv
  <2>2. visit \in 1 .. MaxActs + 1
    BY AdminTabsAssumption DEF AdminTypes
  <2>3. saving => saves # <<>>
    BY DEF AdminTypes
  <2>4. QED
    BY <2>1, <2>2, <2>3 DEF AdminTypes, RestoreInv, RestoreType, Archive, AdminTypeOK
<1>2. QED
  BY <1>1, InitRestores, StepRestores, AdminStarts, AdminStays, PTL DEF AdminSpec

-----------------------------------------------------------------------------
(* The hosts of an import are taken smallest first.                        *)
LEMMA MinIsIn == ASSUME NEW S \in SUBSET Nat, S # {} PROVE Min(S) \in S
<1>1. \E x \in S : \A y \in S : ~(<<y, x>> \in OpToRel(<, Nat))
  BY NatLessThanWellFounded, WFMin
<1>2. PICK x \in S : \A y \in S : ~(<<y, x>> \in OpToRel(<, Nat))
  BY <1>1
<1>3. \A y \in S : x <= y
  <2> SUFFICES ASSUME NEW y \in S, y < x PROVE FALSE
    OBVIOUS
  <2>1. <<y, x>> \in Nat \X Nat
    OBVIOUS
  <2>2. QED
    BY <1>2, <2>1 DEF OpToRel
<1>4. QED
  BY <1>3 DEF Min

-----------------------------------------------------------------------------
(* Imports.                                                                *)
ImportTypes ==
    /\ registered \subseteq Net \X Address /\ imported \subseteq Address
    /\ importing \in Address \cup {None} /\ Len(imports) <= MaxImports
    /\ turns \in 0 .. MaxTurns /\ mounts \in 1 .. turns + 1

LEMMA ImportsStart == ImportsInit => ImportTypes
  BY ImportsAssumption DEF ImportsInit, ImportTypes

LEMMA ImportsKeepTypes == ImportInv /\ ImportTypes /\ [ImportsNext]_importVars => ImportTypes'
<1> SUFFICES ASSUME ImportInv, ImportTypes, [ImportsNext]_importVars PROVE ImportTypes'
  OBVIOUS
<1>1. /\ turns \in Nat /\ turns <= MaxTurns /\ MaxTurns \in Nat /\ mounts \in Nat
      /\ mounts >= 1 /\ mounts <= turns + 1 /\ Len(imports) \in Nat /\ MaxImports \in Nat
  BY ImportsAssumption DEF ImportTypes, ImportInv
<1>2. ASSUME NEW as \in SUBSET Address, as # {} PROVE Min(as) \in as
  BY <1>2, ImportsAssumption, MinIsIn
\* A turn: at most one mount more.
<1>3. ASSUME turns' = turns \/ Turn, mounts' = mounts \/ (Turn /\ mounts' = mounts + 1),
             registered' \subseteq Net \X Address, imported' \subseteq Address,
             importing' \in Address \cup {None}, Len(imports') <= MaxImports
      PROVE  ImportTypes'
  BY <1>1, <1>3 DEF ImportTypes, Turn
<1>4. CASE UNCHANGED importVars
  BY <1>3, <1>4 DEF importVars, ImportTypes
<1>5. ASSUME NEW n \in Net, ChooseNet(n) PROVE ImportTypes'
  BY <1>3, <1>5 DEF ChooseNet, ImportTypes
<1>6. ASSUME NEW n \in Net, NEW a \in Address, OthersRegister(n, a) PROVE ImportTypes'
  BY <1>3, <1>6 DEF OthersRegister, ImportTypes
<1>7. CASE LeaveView
  BY <1>3, <1>7 DEF LeaveView, ImportTypes
<1>8. ASSUME NEW as, Rescan(as) PROVE ImportTypes'
  BY <1>3, <1>8 DEF Rescan, ImportTypes
<1>9. ASSUME NEW as \in SUBSET Address, as # {}, StartImport(as) PROVE ImportTypes'
  <2>1. Len(imports') = Len(imports) + 1
    BY <1>9 DEF StartImport, ImportInv
  <2>2. importing' \in Address
    BY <1>2, <1>9 DEF StartImport
  <2>3. QED
    <3>1. UNCHANGED <<registered, imported, mounts, turns>> /\ Len(imports) < MaxImports
      BY <1>9 DEF StartImport
    <3>2. Len(imports') <= MaxImports
      BY <1>1, <2>1, <3>1
    <3>3. QED
      BY <1>3, <2>2, <3>1, <3>2 DEF ImportTypes
<1>10. CASE ImportAll
  <2>1. Unimported \in SUBSET Address /\ Unimported # {}
    BY <1>10 DEF ImportAll, Unimported, ImportInv
  <2>2. QED
    BY <1>9, <1>10, <2>1 DEF ImportAll
<1>11. ASSUME NEW a \in Address, ImportHost(a) PROVE ImportTypes'
  BY <1>9, <1>11 DEF ImportHost
<1>12. ASSUME NEW i \in DOMAIN imports, CommitImport(i) \/ LoseImport(i) \/ NextImport(i)
       PROVE  ImportTypes'
  <2> DEFINE m == imports[i]
             host == Min(m.todo)
  <2>1. m \in ImportType /\ m.net \in Net /\ m.todo \in SUBSET Address
    <3>1. m \in ImportType
      BY DEF ImportInv
    <3>2. QED
      BY <3>1 DEF ImportType
  <2>2. m.todo # {} /\ host \in Address
    BY <1>2, <1>12, <2>1 DEF CommitImport, LoseImport, NextImport, UnderWay
  <2>3. Len(imports') = Len(imports)
    BY <1>12 DEF CommitImport, LoseImport, NextImport, ImportInv
  <2>4. registered' \subseteq Net \X Address
    BY <1>12, <2>1, <2>2 DEF CommitImport, LoseImport, NextImport, ImportTypes, Hand
  <2>5. imported' \subseteq Address /\ importing' \in Address \cup {None}
    <3>1. CASE NextImport(i)
      <4>1. m.todo \ {host} # {} => Min(m.todo \ {host}) \in Address
        BY <1>2, <2>1
      <4>2. imported' = imported \/ imported' = imported \cup {host}
        BY <3>1 DEF NextImport
      <4>3. \/ importing' = importing \/ importing' = None
            \/ m.todo \ {host} # {} /\ importing' = Min(m.todo \ {host})
        BY <3>1 DEF NextImport
      <4>4. QED
        BY <2>2, <4>1, <4>2, <4>3 DEF ImportTypes
    <3>2. CASE UNCHANGED <<imported, importing>>
      BY <3>2 DEF ImportTypes
    <3>3. QED
      BY <1>12, <3>1, <3>2 DEF CommitImport, LoseImport
  <2>6. mounts' = mounts /\ (turns' = turns \/ Turn)
    BY <1>12 DEF CommitImport, LoseImport, NextImport
  <2>7. QED
    BY <1>1, <1>3, <2>3, <2>4, <2>5, <2>6 DEF ImportTypes
<1>13. QED
  BY <1>4, <1>5, <1>6, <1>7, <1>8, <1>10, <1>11, <1>12 DEF ImportsNext

LEMMA ImportsAreTyped == ImportsSpec => []ImportsTypeOK
<1>1. ImportInv /\ ImportTypes => ImportsTypeOK
  <2> SUFFICES ASSUME ImportInv, ImportTypes PROVE ImportsTypeOK
    OBVIOUS
  <2>1. \A i \in DOMAIN imports : imports[i] \in ImportType
    BY DEF ImportInv
  <2>2. mounts \in 1 .. MaxTurns + 1
    BY ImportsAssumption DEF ImportTypes
  <2>3. QED
    BY <2>1, <2>2 DEF ImportInv, ImportTypes, ImportType, ImportsTypeOK
<1>2. QED
  BY <1>1, InitImports, StepImports, ImportsStart, ImportsKeepTypes, PTL DEF ImportsSpec

-----------------------------------------------------------------------------
(* Bulk edits.                                                             *)
BulkTypes ==
    /\ bulkPage \in {"ips", "records"} /\ touches \in 0 .. MaxTouched
    /\ \A r \in DOMAIN ipTable : ipTable[r].ver <= touches
    /\ ipStatus \in [IpRow -> {"before", "after"}] /\ Len(runs) <= MaxRuns

LEMMA BulkStarts == BulkInit => BulkTypes
<1> SUFFICES ASSUME BulkInit PROVE BulkTypes
  OBVIOUS
<1>1. PICK tags \in SUBSET Slug : ipTable = [r \in IpRow |-> [tags |-> tags, ver |-> 0]]
  BY DEF BulkInit
<1>2. QED
  BY <1>1, BulkAssumption DEF BulkInit, BulkTypes

LEMMA BulkKeepsTypes == BulkInv /\ BulkTypes /\ [BulkNext]_bulkVars => BulkTypes'
<1> SUFFICES ASSUME BulkInv, BulkTypes, [BulkNext]_bulkVars PROVE BulkTypes'
  OBVIOUS
<1>1. /\ touches \in Nat /\ touches <= MaxTouched /\ MaxTouched \in Nat /\ MaxRuns \in Nat
      /\ Len(runs) \in Nat /\ Len(runs) <= MaxRuns
      /\ \A r \in DOMAIN ipTable : ipTable[r].ver \in Nat /\ ipTable[r].ver <= touches
  BY BulkAssumption DEF BulkTypes, BulkInv, TableRow
<1>2. ASSUME UNCHANGED bulkPage, touches' = touches \/ (touches < MaxTouched /\ touches' = touches + 1),
             \A r \in DOMAIN ipTable' : ipTable'[r].ver <= touches',
             ipStatus' \in [IpRow -> {"before", "after"}], Len(runs') <= MaxRuns
      PROVE  BulkTypes'
  BY <1>1, <1>2 DEF BulkTypes
<1>3. CASE UNCHANGED bulkVars
  BY <1>3 DEF bulkVars, BulkTypes
<1>4. ASSUME NEW r, ToggleRow(r) PROVE BulkTypes'
  BY <1>1, <1>2, <1>4 DEF ToggleRow, Touch, BulkTypes
<1>5. ASSUME NEW ids, SelectAll(ids) PROVE BulkTypes'
  BY <1>1, <1>2, <1>5 DEF SelectAll, Touch, BulkTypes
<1>6. ASSUME NEW r, NEW tags, OthersTouch(r, tags) PROVE BulkTypes'
  <2>1. \A q \in DOMAIN ipTable' : ipTable'[q].ver <= touches + 1
    BY <1>1, <1>6 DEF OthersTouch
  <2>2. QED
    BY <1>1, <1>2, <1>6, <2>1 DEF OthersTouch, BulkTypes
<1>7. ASSUME NEW r, OthersDelete(r) PROVE BulkTypes'
  <2>1. \A q \in DOMAIN ipTable' : ipTable'[q].ver <= touches + 1
    BY <1>1, <1>7 DEF OthersDelete
  <2>2. QED
    BY <1>1, <1>2, <1>7, <2>1 DEF OthersDelete, BulkTypes
<1>8. CASE OpenBulk
  BY <1>1, <1>2, <1>8 DEF OpenBulk, BulkTypes
<1>9. CASE LeaveBulk
  <2>1. Len(runs') <= MaxRuns
    <3>1. DOMAIN runs' = 1 .. Len(runs) /\ runs' \in Seq(RunType)
      BY <1>9, LeaveMarks DEF LeaveBulk, BulkInv
    <3>2. Len(runs') = Len(runs)
      BY <1>1, <3>1
    <3>3. QED
      BY <1>1, <3>2
  <2>2. QED
    BY <1>1, <1>2, <1>9, <2>1 DEF LeaveBulk, BulkTypes
<1>10. ASSUME NEW m, NEW tags, ApplyBulk(m, tags) PROVE BulkTypes'
  <2>1. UNCHANGED <<bulkPage, ipTable, ipStatus, touches>> /\ Len(runs) < MaxRuns
    BY <1>10 DEF ApplyBulk
  <2>2. Len(runs') = Len(runs) + 1
    BY <1>10 DEF ApplyBulk, BulkInv
  <2>3. Len(runs') <= MaxRuns
    BY <1>1, <2>1, <2>2
  <2>4. QED
    BY <1>1, <1>2, <2>1, <2>3 DEF BulkTypes
<1>11. ASSUME NEW i \in DOMAIN runs, StepRun(i) PROVE BulkTypes'
  <2>1. UNCHANGED bulkPage /\ (touches' = touches \/ (touches < MaxTouched /\ touches' = touches + 1))
    BY <1>11 DEF StepRun, ReadTags, PutRow, FailRow, CompleteBulk
  <2>2. Len(runs') = Len(runs)
    BY <1>11 DEF StepRun, ReadTags, PutRow, FailRow, CompleteBulk, BulkInv
  <2>3. \A q \in DOMAIN ipTable' : ipTable'[q].ver <= touches
    <3>1. CASE UNCHANGED ipTable
      BY <1>1, <3>1
    <3>2. CASE ipTable' = [ipTable EXCEPT ![RowOf(i)].tags = TagsToSend(runs[i])]
      <4>1. \A q \in DOMAIN ipTable' : q \in DOMAIN ipTable /\ ipTable'[q].ver = ipTable[q].ver
        BY <3>2 DEF BulkInv, TableRow
      <4>2. QED
        BY <1>1, <4>1
    <3>3. QED
      BY <1>11, <3>1, <3>2 DEF StepRun, ReadTags, PutRow, FailRow, CompleteBulk
  <2>4. ipStatus' \in [IpRow -> {"before", "after"}]
    BY <1>11 DEF StepRun, ReadTags, PutRow, FailRow, CompleteBulk, BulkTypes
  <2>5. \A q \in DOMAIN ipTable' : ipTable'[q].ver <= touches'
    <3>1. \A q \in DOMAIN ipTable' : ipTable'[q].ver \in Nat
      BY StepBulk DEF BulkInv, TableRow
    <3>2. QED
      BY <1>1, <2>1, <2>3, <3>1
  <2>6. QED
    BY <1>1, <1>2, <2>1, <2>2, <2>4, <2>5 DEF BulkTypes
<1>12. QED
  BY <1>3, <1>4, <1>5, <1>6, <1>7, <1>8, <1>9, <1>10, <1>11 DEF BulkNext

LEMMA BulkIsTyped == BulkSpec => []BulkTypeOK
<1>1. BulkInv /\ BulkTypes => BulkTypeOK
  <2> SUFFICES ASSUME BulkInv, BulkTypes PROVE BulkTypeOK
    OBVIOUS
  <2>1. \A i \in DOMAIN runs : runs[i] \in RunType
    BY DEF BulkInv
  <2>2. \A r \in DOMAIN ipTable : ipTable[r] \in [tags : SUBSET Slug, ver : 0 .. MaxTouched]
    <3> SUFFICES ASSUME NEW r \in DOMAIN ipTable
                 PROVE  ipTable[r] \in [tags : SUBSET Slug, ver : 0 .. MaxTouched]
      OBVIOUS
    <3>1. ipTable[r] \in TableRow /\ ipTable[r].ver <= MaxTouched
      BY BulkAssumption DEF BulkInv, BulkTypes, TableRow
    <3>2. QED
      BY <3>1, BulkAssumption DEF TableRow
  <2>3. QED
    BY <2>1, <2>2 DEF BulkInv, BulkTypes, RunType, BulkTypeOK
<1>2. QED
  BY <1>1, InitBulk, StepBulk, BulkStarts, BulkKeepsTypes, PTL DEF BulkSpec

-----------------------------------------------------------------------------
(* Lists and dialogs.                                                      *)
Numbered(r) == r \in Row \cup {0}

CallTyped(v) ==
    /\ Numbered(calls[v].row)
    /\ v \in listPage.atOnce => calls[v].sent <= MaxPressed

ListTypes ==
    /\ listPage \in ListedPage /\ Numbered(dialog.row)
    /\ \A v \in Verbs(listPage) : CallTyped(v)
    /\ opened <= MaxOpened /\ others \in 0 .. MaxSteps /\ lost <= others

LEMMA ListStarts == ListInit => ListTypes
<1> SUFFICES ASSUME ListInit PROVE ListTypes
  OBVIOUS
<1>1. \A v \in Verbs(listPage) : calls[v].row = 0 /\ calls[v].sent = 0
  BY DEF ListInit, NoCall
<1>2. dialog.row = 0
  BY DEF ListInit, Closed
<1>3. QED
  BY <1>1, <1>2, ListPagesAssumption DEF ListInit, ListTypes, CallTyped, Numbered

\* The call of a verb is another one.
LEMMA OneCallTyped ==
  ASSUME ListInv, ListTypes, NEW v \in Verbs(listPage), NEW c, calls' = [calls EXCEPT ![v] = c],
         Numbered(c.row), v \in listPage.atOnce => c.sent <= MaxPressed, UNCHANGED listPage
  PROVE  \A w \in Verbs(listPage) : CallTyped(w)'
<1>1. DOMAIN calls = Verbs(listPage)
  BY DEF ListInv, CallsOK, CallsTyped
<1>2. \A w \in Verbs(listPage) : calls'[w] = IF w = v THEN c ELSE calls[w]
  BY <1>1
<1>3. QED
  BY <1>2, Zenon DEF ListTypes, CallTyped, Numbered

LEMMA ListKeepsTypes == ListInv /\ TableInv /\ ListTypes /\ [ListNext]_listVars => ListTypes'
<1> SUFFICES ASSUME ListInv, TableInv, ListTypes, [ListNext]_listVars PROVE ListTypes'
  OBVIOUS
<1>1. /\ opened \in Nat /\ opened <= MaxOpened /\ MaxOpened \in Nat /\ MaxPressed \in Nat
      /\ others \in Nat /\ others <= MaxSteps /\ MaxSteps \in Nat /\ lost \in Nat /\ lost <= others
  BY ListPagesAssumption DEF ListTypes, ListInv
<1>2. ASSUME NEW v \in Verbs(listPage)
      PROVE  /\ calls[v].sent \in Nat /\ calls[v].committed \in Nat /\ Numbered(calls[v].row)
             /\ v \in listPage.atOnce => calls[v].sent <= MaxPressed /\ calls[v].committed = 0
  BY DEF ListInv, CallsOK, CallsTyped, ListTypes, CallTyped
<1>3. ASSUME UNCHANGED listPage, Numbered(dialog'.row), \A v \in Verbs(listPage) : CallTyped(v)',
             opened' = opened \/ (opened < MaxOpened /\ opened' = opened + 1),
             \/ UNCHANGED <<others, lost>>
             \/ /\ others < MaxSteps /\ others' = others + 1
                /\ lost' = lost \/ lost' = lost + 1
      PROVE  ListTypes'
  BY <1>1, <1>3 DEF ListTypes
<1>4. Numbered(dialog.row) /\ Numbered(Closed.row)
  BY DEF ListTypes, Numbered, Closed
<1>5. ASSUME UNCHANGED <<listPage, calls>> PROVE \A v \in Verbs(listPage) : CallTyped(v)'
  BY <1>5 DEF ListTypes, CallTyped, Numbered
\* The table moves, or the server.
<1>6. CASE \/ UNCHANGED listVars \/ Refetch
           \/ \E input \in listPage.narrows : \E rs \in SUBSET Row : Narrow(input, rs)
           \/ \E i \in 0 .. PageCount - 1 : GoToPage(i)
           \/ \E n \in PageSize : SetPageSize(n)
           \/ \E r \in Row : OtherChanges(r)
  <2>1. UNCHANGED <<listPage, calls, dialog, opened, lost>>
    BY <1>6 DEF listVars, Refetch, Narrow, GoToPage, SetPageSize, OtherChanges
  <2>2. others' = others \/ (others < MaxSteps /\ others' = others + 1)
    BY <1>6 DEF listVars, Refetch, Narrow, GoToPage, SetPageSize, OtherChanges, server
  <2>3. QED
    BY <1>1, <1>3, <1>4, <1>5, <2>1, <2>2
<1>7. ASSUME NEW v \in Verbs(listPage), NEW r \in rows \cup {0}, OpenDialog(v, r)
      PROVE  ListTypes'
  <2>1. Numbered(r) /\ dialog'.row = r
    BY <1>7 DEF OpenDialog, Numbered, TableInv
  <2>2. UNCHANGED <<listPage, calls, lost, others>> /\ opened < MaxOpened /\ opened' = opened + 1
    BY <1>7 DEF OpenDialog, server
  <2>3. QED
    BY <1>3, <1>5, <2>1, <2>2
<1>8. ASSUME NEW v \in Verbs(listPage), NEW r \in rows \cup {0}, PressAtOnce(v, r)
      PROVE  ListTypes'
  <2>1. UNCHANGED <<listPage, dialog, opened, lost, others>> /\ calls' = OneMoreCall(v, r)
        /\ v \in listPage.atOnce /\ calls[v].sent + calls[v].committed < MaxPressed
    BY <1>8 DEF PressAtOnce, server
  <2>2. Numbered(r) /\ calls[v].sent + 1 <= MaxPressed
    BY <1>1, <1>2, <2>1 DEF Numbered, TableInv
  <2> DEFINE c == [sent |-> calls[v].sent + 1, committed |-> calls[v].committed,
                   row |-> r, left |-> FALSE]
  <2>3. calls' = [calls EXCEPT ![v] = c] /\ c.row = r /\ c.sent = calls[v].sent + 1
    BY <2>1 DEF OneMoreCall
  <2> HIDE DEF c
  <2>4. \A w \in Verbs(listPage) : CallTyped(w)'
    BY <2>1, <2>2, <2>3, OneCallTyped
  <2>5. QED
    BY <1>3, <1>4, <2>1, <2>4
<1>9. CASE SubmitDialog
  <2> DEFINE v == dialog.verb
             c == [sent |-> calls[v].sent + 1, committed |-> calls[v].committed,
                   row |-> dialog.row, left |-> FALSE]
  <2>1. v \in Verbs(listPage) /\ v \notin listPage.atOnce
    BY <1>9 DEF SubmitDialog, ListInv, DialogVerbs
  <2>2. calls' = [calls EXCEPT ![v] = c] /\ c.row = dialog.row
        /\ UNCHANGED <<listPage, dialog, opened, lost, others>>
    BY <1>9 DEF SubmitDialog, OneMoreCall, server
  <2> HIDE DEF c
  <2>3. \A w \in Verbs(listPage) : CallTyped(w)'
    BY <1>4, <2>1, <2>2, OneCallTyped
  <2>4. QED
    BY <1>3, <1>4, <2>2, <2>3
<1>10. CASE CancelDialog
  <2> DEFINE v == dialog.verb
             c == [calls[v] EXCEPT !.left = IsPending(v)]
  <2>1. v \in Verbs(listPage) /\ v \notin listPage.atOnce
    BY <1>10 DEF CancelDialog, ListInv, DialogVerbs
  <2>2. calls' = [calls EXCEPT ![v] = c] /\ dialog' = Closed
        /\ UNCHANGED <<listPage, opened, lost, others>>
    BY <1>10 DEF CancelDialog, server
  <2>3. c.row = calls[v].row
    BY <2>1 DEF ListInv, CallsOK, CallsTyped, IsCall
  <2> HIDE DEF c
  <2>4. \A w \in Verbs(listPage) : CallTyped(w)'
    BY <1>2, <2>1, <2>2, <2>3, OneCallTyped
  <2>5. QED
    BY <1>3, <1>4, <2>2, <2>4
\* What remains of the calls of a verb.
<1>11. ASSUME NEW v \in Verbs(listPage), NEW s \in Nat, NEW k \in Nat, s <= calls[v].sent,
              calls' = Ended(v, s, k), UNCHANGED listPage
       PROVE  \A w \in Verbs(listPage) : CallTyped(w)'
  <2> DEFINE r == IF s + k = 0 THEN 0 ELSE calls[v].row
             c == [sent |-> s, committed |-> k, row |-> r, left |-> FALSE]
  <2>1. calls' = [calls EXCEPT ![v] = c] /\ c.row = r /\ c.sent = s
    BY <1>11 DEF Ended
  <2>2. Numbered(r)
    BY <1>2 DEF Numbered
  <2>3. v \in listPage.atOnce => s <= MaxPressed
    BY <1>1, <1>2, <1>11
  <2> HIDE DEF c, r
  <2>4. QED
    BY <1>11, <2>1, <2>2, <2>3, OneCallTyped
<1>12. ASSUME NEW v \in Verbs(listPage), CommitCall(v) PROVE ListTypes'
  <2>1. UNCHANGED <<listPage, dialog, opened, lost, others>> /\ calls[v].sent > 0
    BY <1>12 DEF CommitCall
  <2>2. CASE v \in listPage.atOnce
    <3>1. calls' = Ended(v, calls[v].sent - 1, calls[v].committed)
      BY <1>12, <2>2 DEF CommitCall, EndedSent
    <3>2. calls[v].sent - 1 \in Nat /\ calls[v].sent - 1 <= calls[v].sent
      BY <1>2, <2>1
    <3>3. QED
      BY <1>2, <1>3, <1>4, <1>11, <2>1, <3>1, <3>2
  <2>3. CASE v \notin listPage.atOnce
    <3> DEFINE c == [sent |-> calls[v].sent - 1, committed |-> calls[v].committed + 1,
                     row |-> calls[v].row, left |-> calls[v].left]
    <3>1. calls' = [calls EXCEPT ![v] = c] /\ c.row = calls[v].row
      BY <1>12, <2>3 DEF CommitCall
    <3> HIDE DEF c
    <3>2. \A w \in Verbs(listPage) : CallTyped(w)'
      BY <1>2, <2>1, <2>3, <3>1, OneCallTyped
    <3>3. QED
      BY <1>3, <1>4, <2>1, <3>2
  <2>4. QED
    BY <2>2, <2>3
<1>13. ASSUME NEW v \in Verbs(listPage), RefuseCall(v) PROVE ListTypes'
  <2>1. UNCHANGED <<listPage, dialog, opened, lost>> /\ calls[v].sent > 0
        /\ others < MaxSteps /\ others' = others + 1
        /\ calls' = Ended(v, calls[v].sent - 1, calls[v].committed)
    BY <1>13 DEF RefuseCall, EndedSent
  <2>2. calls[v].sent - 1 \in Nat /\ calls[v].sent - 1 <= calls[v].sent
    BY <1>2, <2>1
  <2>3. QED
    BY <1>2, <1>3, <1>4, <1>11, <2>1, <2>2
<1>14. ASSUME NEW v \in Verbs(listPage), LoseAnswer(v) PROVE ListTypes'
  <2>1. UNCHANGED <<listPage, dialog, opened>> /\ calls[v].committed > 0
        /\ others < MaxSteps /\ others' = others + 1 /\ lost' = lost + 1
        /\ calls' = Ended(v, calls[v].sent, calls[v].committed - 1)
    BY <1>14 DEF LoseAnswer, EndedCommitted
  <2>2. calls[v].committed - 1 \in Nat /\ calls[v].sent <= calls[v].sent
    BY <1>2, <2>1
  <2>3. QED
    BY <1>2, <1>3, <1>4, <1>11, <2>1, <2>2
<1>15. ASSUME NEW v \in Verbs(listPage), SucceedCall(v) PROVE ListTypes'
  <2>1. UNCHANGED <<listPage, opened, lost, others>> /\ (dialog' = dialog \/ dialog' = Closed)
    BY <1>15 DEF SucceedCall, server
  <2>2. calls'[v].row = 0 /\ v \notin listPage.atOnce
    <3>1. v \in DialogVerbs /\ calls[v].sent + calls[v].committed - 1 = 0
      <4>1. v \in DialogVerbs /\ calls[v].committed > 0
        BY <1>15, SucceededCalls DEF SucceedCall
      <4>2. calls[v].sent + calls[v].committed <= 1
        BY <4>1 DEF ListInv, CallsOK, HasItsDialog
      <4>3. QED
        BY <1>2, <4>1, <4>2
    <3>2. EndedCommitted(v)[v].row = 0 /\ v \in DOMAIN calls
      <4>1. v \in DOMAIN calls
        BY DEF ListInv, CallsOK, CallsTyped
      <4>2. calls[v].sent + (calls[v].committed - 1) = 0
        BY <1>2, <3>1
      <4>3. QED
        BY <4>1, <4>2 DEF EndedCommitted, Ended
    <3>3. calls'[v] = EndedCommitted(v)[v]
      BY <1>15, <3>2 DEF SucceedCall
    <3>4. QED
      BY <3>1, <3>2, <3>3 DEF DialogVerbs
  <2>3. \A w \in Verbs(listPage) : w # v =>
           calls'[w].row = calls[w].row /\ calls'[w].sent = calls[w].sent
    BY <1>15, SucceededCalls
  <2>4. \A w \in Verbs(listPage) : CallTyped(w)'
    BY <1>2, <2>1, <2>2, <2>3 DEF CallTyped, Numbered
  <2>5. QED
    BY <1>3, <1>4, <2>1, <2>4
<1>16. QED
  BY <1>6, <1>7, <1>8, <1>9, <1>10, <1>12, <1>13, <1>14, <1>15 DEF ListNext

LEMMA ListIsTyped == ListSpec => []ListTypeOK
<1>1. ListInv /\ TableInv /\ ListTypes => ListTypeOK
  <2> SUFFICES ASSUME ListInv, TableInv, ListTypes PROVE ListTypeOK
    OBVIOUS
  <2>1. ASSUME NEW v \in Verbs(listPage)
        PROVE  /\ calls[v] \in [sent : Nat, committed : Nat, row : Row \cup {0}, left : BOOLEAN]
               /\ calls[v].sent + calls[v].committed
                      <= IF v \in listPage.atOnce THEN MaxPressed ELSE 1
    <3>1. /\ IsCall(v) /\ CallTyped(v)
          /\ calls[v].sent \in Nat /\ calls[v].committed \in Nat /\ calls[v].left \in BOOLEAN
          /\ v \in listPage.atOnce => calls[v].committed = 0
      BY DEF ListInv, CallsOK, CallsTyped, ListTypes
    <3>2. v \notin listPage.atOnce => calls[v].sent + calls[v].committed <= 1
      BY DEF ListInv, CallsOK, HasItsDialog, DialogVerbs
    <3>3. QED
      BY <3>1, <3>2, ListPagesAssumption DEF IsCall, CallTyped, Numbered
  <2>2. dialog \in [verb : Verbs(listPage) \cup {"none"}, row : Row \cup {0}]
    BY DEF ListInv, ListTypes, IsDialog, DialogVerbs, Numbered, Closed
  <2>3. opened \in 0 .. MaxOpened /\ lost \in 0 .. MaxSteps
    BY ListPagesAssumption DEF ListInv, ListTypes
  <2>4. QED
    BY <2>1, <2>2, <2>3 DEF ListInv, TableInv, ListTypes, ListTypeOK
<1>2. QED
  BY <1>1, InitList, StepList, InitTable, StepTable, ListStarts, ListKeepsTypes, PTL DEF ListSpec

-----------------------------------------------------------------------------
(* The self update: every success is one of the tries.                     *)
OneIf(b) == IF b THEN 1 ELSE 0

RunSent(s) == {i \in DOMAIN s : s[i] = "sent"}

\* An update that was asked for: its POST is under way, its trigger was
\* written, it goes on, or it has succeeded.
TriesAreCounted ==
    successes + OneIf(trigger) + OneIf(updStep # 0) + Cardinality(RunSent(runPosts)) <= tries

UpdateTypes ==
    /\ trigger \in BOOLEAN /\ triggered \in BOOLEAN /\ updStep \in 0 .. LastStep + 1
    /\ runPosts \in Seq({"sent", "accepted"}) /\ Len(polls) <= MaxPolls + 1
    /\ tries \in 0 .. MaxTries /\ pollsLost \in 0 .. MaxPollsLost
    /\ TriesAreCounted

LEMMA SentAreFinite ==
  ASSUME NEW s \in Seq({"sent", "accepted"})
  PROVE  IsFiniteSet(RunSent(s)) /\ Cardinality(RunSent(s)) \in Nat
<1>1. IsFiniteSet(1 .. Len(s))
  BY FS_Interval
<1>2. RunSent(s) \in SUBSET (1 .. Len(s))
  BY DEF RunSent
<1>3. IsFiniteSet(RunSent(s))
  BY <1>1, <1>2, FS_Subset
<1>4. QED
  BY <1>3, FS_CardinalityType

LEMMA OneMoreSent ==
  ASSUME NEW s \in Seq({"sent", "accepted"})
  PROVE  Cardinality(RunSent(Append(s, "sent"))) <= Cardinality(RunSent(s)) + 1
<1>1. RunSent(Append(s, "sent")) = RunSent(s) \cup {Len(s) + 1}
  BY DEF RunSent
<1>2. IsFiniteSet(RunSent(s)) /\ Cardinality(RunSent(s)) \in Nat
  BY SentAreFinite
<1>3. \/ Cardinality(RunSent(s) \cup {Len(s) + 1}) = Cardinality(RunSent(s))
      \/ Cardinality(RunSent(s) \cup {Len(s) + 1}) = Cardinality(RunSent(s)) + 1
  BY <1>2, FS_AddElement
<1> DEFINE n == Cardinality(RunSent(s))
           m == Cardinality(RunSent(Append(s, "sent")))
<1>4. n \in Nat /\ (m = n \/ m = n + 1)
  BY <1>1, <1>2, <1>3
<1> HIDE DEF n, m
<1>5. m <= n + 1
  BY <1>4
<1>6. QED
  BY <1>5 DEF n, m

\* What remains without one element is no more than the others were.
LEMMA OthersRemain ==
  ASSUME NEW s \in Seq({"sent", "accepted"}), NEW i \in DOMAIN s
  PROVE  /\ RemoveAt(s, i) \in Seq({"sent", "accepted"})
         /\ Cardinality(RunSent(RemoveAt(s, i))) <= Cardinality(RunSent(s) \ {i})
<1> DEFINE r == RemoveAt(s, i)
           at == [j \in RunSent(r) |-> IF j < i THEN j ELSE j + 1]
<1>1. i \in 1 .. Len(s) /\ Len(s) \in Nat
  OBVIOUS
<1> DEFINE S == {"sent", "accepted"}
           a == SubSeq(s, 1, i - 1)
           b == SubSeq(s, i + 1, Len(s))
<1>2. /\ a \in Seq(S) /\ Len(a) = i - 1 /\ \A j \in 1 .. i - 1 : a[j] = s[j]
      /\ b \in Seq(S) /\ Len(b) = Len(s) - i /\ \A j \in 1 .. Len(s) - i : b[j] = s[i + j]
  BY <1>1
<1>3. r = a \o b
  BY DEF RemoveAt
<1> HIDE DEF S, a, b, r
<1>4. r \in Seq(S) /\ Len(r) = Len(s) - 1
  BY <1>1, <1>2, <1>3
<1>5. ASSUME NEW j \in 1 .. Len(s) - 1 PROVE r[j] = IF j < i THEN s[j] ELSE s[j + 1]
  <2>1. CASE j < i
    BY <1>1, <1>2, <1>3, <2>1
  <2>2. CASE ~(j < i)
    <3>1. j \in Nat /\ Len(a) \in Nat /\ Len(b) \in Nat /\ j > Len(a) /\ j <= Len(a) + Len(b)
      BY <1>1, <1>2, <2>2
    <3>2. r[j] = b[j - Len(a)]
      BY <1>2, <1>3, <3>1, LaterOne
    <3>3. j - Len(a) \in 1 .. Len(s) - i /\ i + (j - Len(a)) = j + 1
      BY <1>1, <1>2, <2>2
    <3>4. QED
      BY <1>2, <2>2, <3>2, <3>3
  <2>3. QED
    BY <2>1, <2>2
<1>6. at \in [RunSent(r) -> RunSent(s) \ {i}]
  <2> SUFFICES ASSUME NEW j \in RunSent(r) PROVE at[j] \in RunSent(s) \ {i}
    OBVIOUS
  <2>1. j \in 1 .. Len(s) - 1 /\ r[j] = "sent"
    BY <1>4 DEF RunSent, S
  <2>2. CASE j < i
    BY <1>1, <1>5, <2>1, <2>2 DEF RunSent
  <2>3. CASE ~(j < i)
    BY <1>1, <1>5, <2>1, <2>3 DEF RunSent
  <2>4. QED
    BY <2>2, <2>3
<1>7. ASSUME NEW j \in RunSent(r), NEW k \in RunSent(r), at[j] = at[k] PROVE j = k
  <2>1. j \in Int /\ k \in Int
    BY <1>4 DEF RunSent, S
  <2>2. QED
    BY <1>1, <1>7, <2>1
<1>8. at \in Injection(RunSent(r), RunSent(s) \ {i})
  BY <1>6, <1>7 DEF Injection, IsInjective
<1>9. IsFiniteSet(RunSent(s) \ {i})
  BY SentAreFinite, FS_RemoveElement
<1>10. QED
  BY <1>4, <1>8, <1>9, FS_Injection DEF r, S

LEMMA UpdateStarts == UpdateInit => UpdateTypes
<1> SUFFICES ASSUME UpdateInit PROVE UpdateTypes
  OBVIOUS
<1>1. trigger = FALSE /\ triggered = FALSE /\ updStep = 0 /\ runPosts = <<>> /\ polls = <<>>
      /\ tries = 0 /\ successes = 0 /\ pollsLost = 0
  BY DEF UpdateInit
<1>2. runPosts \in Seq({"sent", "accepted"}) /\ RunSent(runPosts) = {}
  BY <1>1 DEF RunSent
<1>3. TriesAreCounted
  BY <1>1, <1>2, FS_EmptySet DEF TriesAreCounted, OneIf
<1>4. trigger \in BOOLEAN /\ triggered \in BOOLEAN
  BY <1>1
<1>5. QED
  BY <1>1, <1>2, <1>3, <1>4, SelfUpdateAssumption DEF UpdateTypes

\* What happens to an update that was asked for.
LEMMA CountedStays ==
  ASSUME UpdateInv, UpdateTypes, [UpdateNext]_updateVars
  PROVE  /\ trigger' \in BOOLEAN /\ updStep' \in 0 .. LastStep + 1
         /\ runPosts' \in Seq({"sent", "accepted"}) /\ tries' \in 0 .. MaxTries
         /\ TriesAreCounted'
<1> DEFINE Same == UNCHANGED <<trigger, updStep, successes, tries, runPosts>>
           n == Cardinality(RunSent(runPosts))
<1>1. /\ trigger \in BOOLEAN /\ updStep \in Int /\ updStep >= 0 /\ updStep <= LastStep + 1
      /\ LastStep \in Nat /\ LastStep >= 1 /\ MaxTries \in Nat /\ tries \in Nat /\ tries <= MaxTries
      /\ runPosts \in Seq({"sent", "accepted"}) /\ successes \in Nat
  BY SelfUpdateAssumption DEF UpdateTypes, UpdateInv
<1>2. n \in Nat /\ successes + OneIf(trigger) + OneIf(updStep # 0) + n <= tries
  BY <1>1, SentAreFinite DEF UpdateTypes, TriesAreCounted
<1>3. CASE Same
  BY <1>3 DEF UpdateTypes, TriesAreCounted, OneIf
<1>4. CASE Updater
  <2>1. UNCHANGED <<tries, runPosts>>
    BY <1>4 DEF Updater, TakeTrigger, Advance, FailUpdate, SucceedUpdate
  <2>2. /\ trigger' \in BOOLEAN /\ updStep' \in 0 .. LastStep + 1
    <3>1. UNCHANGED trigger \/ trigger' = FALSE
      BY <1>4 DEF Updater, TakeTrigger, Advance, FailUpdate, SucceedUpdate
    <3>2. \/ updStep' = 0 \/ updStep' = 1
          \/ updStep \in 1 .. LastStep /\ updStep' = updStep + 1
      BY <1>4 DEF Updater, TakeTrigger, Advance, FailUpdate, SucceedUpdate
    <3>3. updStep' \in 0 .. LastStep + 1
      BY <1>1, <3>2
    <3>4. QED
      BY <1>1, <3>1, <3>3
  <2>3. successes' + OneIf(trigger)' + OneIf(updStep # 0)' <= successes + OneIf(trigger) + OneIf(updStep # 0)
    <3>1. CASE TakeTrigger
      BY <1>1, <3>1 DEF TakeTrigger, OneIf
    <3>2. CASE Advance
      BY <1>1, <3>2 DEF Advance, OneIf
    <3>3. CASE FailUpdate
      BY <1>1, <3>3 DEF FailUpdate, OneIf
    <3>4. CASE SucceedUpdate
      BY <1>1, <3>4 DEF SucceedUpdate, OneIf
    <3>5. QED
      BY <1>4, <3>1, <3>2, <3>3, <3>4 DEF Updater
  <2>4. successes' \in Nat /\ OneIf(trigger)' \in Nat /\ OneIf(updStep # 0)' \in Nat
        /\ OneIf(trigger) \in Nat /\ OneIf(updStep # 0) \in Nat
    <3>1. successes' = successes \/ successes' = successes + 1
      BY <1>4 DEF Updater, TakeTrigger, Advance, FailUpdate, SucceedUpdate
    <3>2. successes' \in Nat
      BY <1>1, <3>1
    <3>3. \A b : OneIf(b) \in {0, 1}
      BY Zenon DEF OneIf
    <3>4. OneIf(trigger)' = OneIf(trigger') /\ OneIf(updStep # 0)' = OneIf(updStep' # 0)
      BY DEF OneIf
    <3>5. QED
      BY <3>2, <3>3, <3>4
  <2>5. Cardinality(RunSent(runPosts))' = n
    BY <2>1
  <2> HIDE DEF n
  <2>6. TriesAreCounted'
    BY <1>1, <1>2, <2>1, <2>3, <2>4, <2>5 DEF TriesAreCounted
  <2>7. QED
    BY <1>1, <2>1, <2>2, <2>6
<1>5. CASE OthersTrigger
  <2>1. UNCHANGED <<updStep, successes, runPosts>> /\ trigger = FALSE /\ trigger' = TRUE
        /\ tries' = tries + 1 /\ tries < MaxTries
    BY <1>1, <1>5 DEF OthersTrigger
  <2>2. TriesAreCounted'
    BY <1>1, <1>2, <2>1 DEF TriesAreCounted, OneIf
  <2>3. QED
    BY <1>1, <2>1, <2>2
<1>6. CASE PressUpdate
  <2>1. UNCHANGED <<trigger, updStep, successes>> /\ runPosts' = Append(runPosts, "sent")
        /\ tries' = tries + 1 /\ tries < MaxTries
    BY <1>6 DEF PressUpdate, updater
  <2>2. runPosts' \in Seq({"sent", "accepted"}) /\ Cardinality(RunSent(runPosts))' <= n + 1
    BY <1>1, <2>1, OneMoreSent
  <2>3. Cardinality(RunSent(runPosts))' \in Nat
    BY <2>2, SentAreFinite
  <2> HIDE DEF n
  <2>4. TriesAreCounted'
    BY <1>1, <1>2, <2>1, <2>2, <2>3 DEF TriesAreCounted, OneIf
  <2>5. QED
    BY <1>1, <2>1, <2>2, <2>4
<1>7. ASSUME NEW i \in DOMAIN runPosts, AnswerRun(i) PROVE TriesAreCounted'
             /\ trigger' \in BOOLEAN /\ runPosts' \in Seq({"sent", "accepted"})
             /\ UNCHANGED <<updStep, tries>>
  <2>1. UNCHANGED <<updStep, successes, tries>> /\ trigger' = TRUE /\ i \in RunSent(runPosts)
    BY <1>7 DEF AnswerRun, RunSent
  <2>2. Cardinality(RunSent(runPosts) \ {i}) = n - 1
    BY <1>1, <2>1, SentAreFinite, FS_RemoveElement
  <2>3. CASE trigger
    <3>1. runPosts' = RemoveAt(runPosts, i)
      BY <1>7, <2>3 DEF AnswerRun
    <3>2. runPosts' \in Seq({"sent", "accepted"}) /\ Cardinality(RunSent(runPosts))' <= n - 1
      BY <1>1, <2>2, <3>1, OthersRemain
    <3>3. Cardinality(RunSent(runPosts))' \in Nat
      BY <3>2, SentAreFinite
    <3> HIDE DEF n
    <3>4. QED
      BY <1>1, <1>2, <2>1, <2>3, <3>2, <3>3 DEF TriesAreCounted, OneIf
  <2>4. CASE trigger = FALSE
    <3>1. runPosts' = [runPosts EXCEPT ![i] = "accepted"]
      BY <1>7, <2>4 DEF AnswerRun
    <3>2. runPosts' \in Seq({"sent", "accepted"}) /\ RunSent(runPosts') = RunSent(runPosts) \ {i}
      BY <1>1, <3>1 DEF RunSent
    <3>3. Cardinality(RunSent(runPosts))' = n - 1
      BY <2>2, <3>2
    <3> HIDE DEF n
    <3>4. QED
      BY <1>1, <1>2, <2>1, <2>4, <3>2, <3>3 DEF TriesAreCounted, OneIf
  <2>5. QED
    BY <1>1, <2>3, <2>4
<1>8. ASSUME NEW i \in DOMAIN runPosts, RunAccepted(i) PROVE TriesAreCounted'
             /\ runPosts' \in Seq({"sent", "accepted"})
             /\ UNCHANGED <<trigger, updStep, tries>>
  <2>1. UNCHANGED <<trigger, updStep, successes, tries>> /\ runPosts' = RemoveAt(runPosts, i)
        /\ i \notin RunSent(runPosts)
    BY <1>8 DEF RunAccepted, updater, RunSent
  <2>2. Cardinality(RunSent(runPosts) \ {i}) = n
    BY <1>1, <2>1, SentAreFinite, FS_RemoveElement
  <2>3. runPosts' \in Seq({"sent", "accepted"}) /\ Cardinality(RunSent(runPosts))' <= n
    BY <1>1, <2>1, <2>2, OthersRemain
  <2>4. Cardinality(RunSent(runPosts))' \in Nat
    BY <2>3, SentAreFinite
  <2> HIDE DEF n
  <2>5. QED
    BY <1>1, <1>2, <2>1, <2>3, <2>4 DEF TriesAreCounted, OneIf
<1>9. CASE Reload
  <2>1. UNCHANGED <<trigger, updStep, successes, tries>> /\ runPosts' = <<>>
    BY <1>9 DEF Reload, updater
  <2>2. runPosts' \in Seq({"sent", "accepted"}) /\ RunSent(runPosts') = {}
    BY <2>1 DEF RunSent
  <2>3. Cardinality(RunSent(runPosts))' = 0
    BY <2>2, FS_EmptySet
  <2> HIDE DEF n
  <2>4. TriesAreCounted'
    BY <1>1, <1>2, <2>1, <2>3 DEF TriesAreCounted, OneIf
  <2>5. QED
    BY <1>1, <2>1, <2>2, <2>4
<1>10. CASE \/ UNCHANGED updateVars \/ FetchStatus \/ SendPoll
            \/ \E i \in DOMAIN polls : AnswerPoll(i) \/ ApplyPoll(i) \/ LosePoll(i)
  <2>1. Same
    BY <1>10 DEF updateVars, updater, FetchStatus, SendPoll, AnswerPoll, ApplyPoll, LosePoll
  <2>2. QED
    BY <1>3, <2>1
<1> HIDE DEF Same, n
<1>11. QED
  BY <1>1, <1>4, <1>5, <1>6, <1>7, <1>8, <1>9, <1>10 DEF UpdateNext

LEMMA UpdateKeepsTypes == UpdateInv /\ UpdateTypes /\ [UpdateNext]_updateVars => UpdateTypes'
<1> SUFFICES ASSUME UpdateInv, UpdateTypes, [UpdateNext]_updateVars PROVE UpdateTypes'
  OBVIOUS
<1>1. /\ polls \in Seq(Status \cup {"sent"}) /\ Len(polls) \in Nat /\ Len(polls) <= MaxPolls + 1
      /\ MaxPolls \in Nat /\ MaxPollsLost \in Nat /\ pollsLost \in Nat /\ pollsLost <= MaxPollsLost
  BY SelfUpdateAssumption DEF UpdateInv, UpdateTypes
<1>2. ASSUME NEW i \in DOMAIN polls PROVE Len(RemoveAt(polls, i)) <= MaxPolls + 1
  <2>1. Len(RemoveAt(polls, i)) = Len(polls) - 1
    BY <1>1 DEF RemoveAt
  <2>2. QED
    BY <1>1, <2>1
<1>3. triggered' \in BOOLEAN
  BY Zenon DEF UpdateTypes, UpdateNext, updateVars, updater, tab, Updater, TakeTrigger, Advance,
     FailUpdate, SucceedUpdate, OthersTrigger, FetchStatus, PressUpdate, SendPoll, Reload,
     AnswerRun, RunAccepted, AnswerPoll, ApplyPoll, LosePoll
<1>4. pollsLost' \in 0 .. MaxPollsLost
  <2>1. pollsLost' = pollsLost \/ (pollsLost < MaxPollsLost /\ pollsLost' = pollsLost + 1)
    BY DEF UpdateNext, updateVars, Updater, TakeTrigger, Advance,
       FailUpdate, SucceedUpdate, OthersTrigger, FetchStatus, PressUpdate, SendPoll, Reload,
       AnswerRun, RunAccepted, AnswerPoll, ApplyPoll, LosePoll
  <2>2. QED
    BY <1>1, <2>1
<1>5. Len(polls') <= MaxPolls + 1
  <2>1. \/ polls' = polls \/ polls' = <<>> \/ polls' = <<"sent">>
        \/ polls' = Append(polls, "sent") /\ Len(polls) < MaxPolls
        \/ \E i \in DOMAIN polls : polls' = RemoveAt(polls, i)
                                   \/ polls' = [polls EXCEPT ![i] = updState]
    BY DEF UpdateNext, updateVars, tab, Updater, TakeTrigger, Advance,
       FailUpdate, SucceedUpdate, OthersTrigger, FetchStatus, PressUpdate, SendPoll, Reload,
       AnswerRun, RunAccepted, AnswerPoll, ApplyPoll, LosePoll
  <2>2. CASE polls' = polls
    BY <1>1, <2>2
  <2>6. CASE polls' = <<>>
    BY <1>1, <2>6
  <2>7. CASE polls' = <<"sent">>
    <3>1. Len(polls') = 1
      BY <2>7
    <3>2. QED
      BY <1>1, <3>1
  <2>3. CASE polls' = Append(polls, "sent") /\ Len(polls) < MaxPolls
    BY <1>1, <2>3
  <2>4. ASSUME NEW i \in DOMAIN polls, polls' = [polls EXCEPT ![i] = updState]
        PROVE  Len(polls') <= MaxPolls + 1
    BY <1>1, <2>4
  <2>5. QED
    BY <1>2, <2>1, <2>2, <2>3, <2>4, <2>6, <2>7
<1>6. QED
  BY <1>3, <1>4, <1>5, CountedStays DEF UpdateTypes

LEMMA UpdateIsTyped == UpdateSpec => []UpdateTypeOK
<1>1. UpdateInv /\ UpdateTypes => UpdateTypeOK
  <2> SUFFICES ASSUME UpdateInv, UpdateTypes PROVE UpdateTypeOK
    OBVIOUS
  <2>1. successes \in 0 .. MaxTries
    <3>1. Cardinality(RunSent(runPosts)) \in Nat /\ tries \in Nat /\ tries <= MaxTries
          /\ MaxTries \in Nat /\ successes \in Nat
      BY SentAreFinite, SelfUpdateAssumption DEF UpdateTypes, UpdateInv
    <3>2. QED
      BY <3>1 DEF UpdateTypes, TriesAreCounted, OneIf
  <2>2. {trigger, triggered, sawRunning, reloading, overtaken} \subseteq BOOLEAN
    BY DEF UpdateTypes, UpdateInv
  <2>3. QED
    BY <2>1, <2>2 DEF UpdateTypes, UpdateInv, UpdateTypeOK
<1>2. QED
  BY <1>1, InitUpdate, StepUpdate, UpdateStarts, UpdateKeepsTypes, PTL DEF UpdateSpec

-----------------------------------------------------------------------------
(* The profile: requests, windows and secrets know each other.             *)
\* What names a request names one that was sent; a request knows the tab it
\* came from by the number of the visit, and only the mfa tab asks for a setup.
ProfileLinks ==
    /\ account.secret \in {NoSecret} \cup DOMAIN orders
    /\ scanned \subseteq DOMAIN orders
    /\ \A w \in Window : /\ wins[w].visit >= 1 /\ wins[w].visit <= MaxVisits
                         /\ wins[w].setup \in {NoSecret} \cup DOMAIN orders
                         /\ wins[w].setup # NoSecret => wins[w].tab = "mfa"
    /\ \A i \in DOMAIN orders :
          /\ orders[i].visit <= wins[orders[i].win].visit
          /\ orders[i].kind = "setup" /\ Here(i) => wins[orders[i].win].tab = "mfa"

\* The visits of one window are among those that are counted.
LEMMA VisitsOfOne ==
  ASSUME NEW w \in Window, wins[w].visit \in 1 .. MaxVisits
  PROVE  Visits \in Nat /\ wins[w].visit <= Visits
<1> DEFINE n == wins[w].visit
           V == {v \in Window \X (1 .. MaxVisits) : v[2] <= wins[v[1]].visit}
           f == [k \in 1 .. n |-> <<w, k>>]
<1>1. MaxVisits \in Nat /\ IsFiniteSet(Window) /\ n \in Nat /\ n <= MaxVisits
  BY ProfileAssumption
<1>12. n >= 1
  OBVIOUS
<1>2. IsFiniteSet(1 .. MaxVisits)
  BY <1>1, FS_Interval
<1>3. IsFiniteSet(Window \X (1 .. MaxVisits))
  BY <1>1, <1>2, FS_Product
<1>4. IsFiniteSet(V)
  BY <1>3, FS_Subset
<1>5. \A k \in 1 .. n : <<w, k>> \in V
  BY <1>1
<1>6. f \in Injection(1 .. n, V)
  BY <1>5 DEF Injection, IsInjective
<1> HIDE DEF V, f, n
<1>7. Cardinality(1 .. n) <= Cardinality(V)
  BY <1>4, <1>6, FS_Injection
<1>8. Cardinality(1 .. n) = n
  <2>1. n \in Int /\ ~(1 > n) /\ n - 1 + 1 = n
    BY <1>1, <1>12
  <2>2. QED
    BY <2>1, FS_Interval
<1>9. Cardinality(V) \in Nat
  BY <1>4, FS_CardinalityType
<1>10. Visits = Cardinality(V)
  BY DEF Visits, V
<1>11. QED
  BY <1>7, <1>8, <1>9, <1>10 DEF n

LEMMA ProfileStarts == ProfileInit => ProfileLinks
<1> SUFFICES ASSUME ProfileInit PROVE ProfileLinks
  OBVIOUS
<1>1. account.secret = NoSecret /\ scanned = {} /\ orders = <<>> /\ MaxVisits \in Nat /\ MaxVisits >= 1
  BY ProfileAssumption DEF ProfileInit
<1>2. \A w \in Window : wins[w].visit = 1 /\ wins[w].setup = NoSecret
  BY DEF ProfileInit
<1>3. DOMAIN orders = {}
  BY <1>1
<1> QED
  BY <1>1, <1>2, <1>3 DEF ProfileLinks

\* A step that sends no request, or one.
OrdersGrow ==
    /\ DOMAIN orders \subseteq DOMAIN orders'
    /\ \A i \in DOMAIN orders : orders'[i].win = orders[i].win /\ orders'[i].visit = orders[i].visit
                                /\ orders'[i].kind = orders[i].kind

LEMMA OpenedTyped ==
  ASSUME MfaInv, MfaInv', ProfileLinks, NEW w \in Window, NEW t \in Tab, OpenTab(w, t)
  PROVE  ProfileLinks'
<1>1. wins \in [Window -> [tab : Tab, visit : Nat, setup : Nat, on : BOOLEAN, name : Nat]]
      /\ orders \in Seq(OrderType) /\ MaxVisits \in Nat
  BY ProfileAssumption DEF MfaInv, ProfileTypes
<1>2. \A v \in Window : wins[v].visit \in Nat /\ wins[v].visit >= 1 /\ wins[v].visit <= MaxVisits
  BY <1>1 DEF ProfileLinks
<1>3. wins[w].visit <= Visits /\ Visits \in Nat /\ Visits < MaxVisits
  BY <1>1, <1>2, VisitsOfOne DEF OpenTab
<1>4. /\ wins'[w].visit = wins[w].visit + 1 /\ wins'[w].setup = NoSecret
      /\ \A v \in Window : v # w => wins'[v] = wins[v]
  BY <1>1 DEF OpenTab
<1>5. UNCHANGED <<account, scanned, orders>>
  BY DEF OpenTab
<1>6. \A v \in Window : /\ wins'[v].visit >= 1 /\ wins'[v].visit <= MaxVisits
                        /\ wins'[v].setup \in {NoSecret} \cup DOMAIN orders
                        /\ wins'[v].setup # NoSecret => wins'[v].tab = "mfa"
  BY <1>1, <1>2, <1>3, <1>4 DEF ProfileLinks
<1>7. ASSUME NEW i \in DOMAIN orders
      PROVE  /\ orders[i].visit <= wins'[orders[i].win].visit
             /\ orders[i].kind = "setup" /\ orders[i].visit = wins'[orders[i].win].visit
                  => wins'[orders[i].win].tab = "mfa"
  <2>1. orders[i].win \in Window /\ orders[i].visit \in Nat
    <3>1. orders[i] \in OrderType
      BY <1>1
    <3>2. QED
      BY <3>1 DEF OrderType
  <2>2. orders[i].visit <= wins[orders[i].win].visit
    BY DEF ProfileLinks
  <2>3. CASE orders[i].win = w
    BY <1>2, <1>4, <2>1, <2>2, <2>3
  <2>4. CASE orders[i].win # w
    BY <1>4, <2>1, <2>2, <2>4 DEF ProfileLinks, Here
  <2>5. QED
    BY <2>3, <2>4
<1>8. QED
  BY <1>5, <1>6, <1>7 DEF ProfileLinks, Here

\* A step of a window that keeps its tab, of the endpoints, or of an answer.
LEMMA ShownTyped ==
  ASSUME MfaInv, MfaInv', ProfileLinks, OrdersGrow,
         \A w \in Window : /\ wins'[w].tab = wins[w].tab /\ wins'[w].visit = wins[w].visit
                           /\ wins'[w].setup \in {NoSecret, wins[w].setup} \cup
                                {i \in DOMAIN orders : /\ orders[i].win = w /\ Here(i)
                                                       /\ orders[i].kind = "setup"},
         \A i \in DOMAIN orders' \ DOMAIN orders :
              /\ orders'[i].visit = wins[orders'[i].win].visit
              /\ orders'[i].kind = "setup" => wins[orders'[i].win].tab = "mfa",
         account'.secret \in {NoSecret, account.secret} \cup DOMAIN orders,
         scanned' \subseteq scanned \cup DOMAIN orders
  PROVE  ProfileLinks'
<1>1. /\ orders \in Seq(OrderType) /\ orders' \in Seq(OrderType)
      /\ wins \in [Window -> [tab : Tab, visit : Nat, setup : Nat, on : BOOLEAN, name : Nat]]
      /\ wins' \in [Window -> [tab : Tab, visit : Nat, setup : Nat, on : BOOLEAN, name : Nat]]
  BY DEF MfaInv, ProfileTypes
<1>2. /\ \A i \in DOMAIN orders : orders[i].win \in Window /\ orders[i].visit \in Nat
      /\ \A i \in DOMAIN orders' : orders'[i].win \in Window /\ orders'[i].visit \in Nat
  <2>1. /\ \A i \in DOMAIN orders : orders[i] \in OrderType
        /\ \A i \in DOMAIN orders' : orders'[i] \in OrderType
    BY <1>1
  <2>2. QED
    BY <2>1 DEF OrderType
<1>3. account'.secret \in {NoSecret} \cup DOMAIN orders' /\ scanned' \subseteq DOMAIN orders'
  BY DEF ProfileLinks, OrdersGrow
<1>4. ASSUME NEW w \in Window
      PROVE  /\ wins'[w].visit >= 1 /\ wins'[w].visit <= MaxVisits
             /\ wins'[w].setup \in {NoSecret} \cup DOMAIN orders'
             /\ wins'[w].setup # NoSecret => wins'[w].tab = "mfa"
  <2>1. CASE wins'[w].setup \in {NoSecret, wins[w].setup}
    BY <2>1 DEF ProfileLinks, OrdersGrow
  <2>2. ASSUME NEW i \in DOMAIN orders, orders[i].win = w, Here(i), orders[i].kind = "setup",
               wins'[w].setup = i
        PROVE  wins'[w].setup \in DOMAIN orders' /\ wins'[w].tab = "mfa"
    BY <2>2 DEF ProfileLinks, OrdersGrow
  <2>3. wins'[w].visit >= 1 /\ wins'[w].visit <= MaxVisits
    BY DEF ProfileLinks
  <2>4. QED
    BY <2>1, <2>2, <2>3
<1>5. ASSUME NEW i \in DOMAIN orders'
      PROVE  /\ orders'[i].visit <= wins'[orders'[i].win].visit
             /\ orders'[i].kind = "setup" /\ Here(i)' => wins'[orders'[i].win].tab = "mfa"
  <2>1. CASE i \in DOMAIN orders
    BY <1>2, <2>1 DEF ProfileLinks, OrdersGrow, Here
  <2>2. CASE i \notin DOMAIN orders
    BY <1>1, <1>2, <2>2 DEF Here
  <2>3. QED
    BY <2>1, <2>2
<1>6. QED
  BY <1>3, <1>4, <1>5 DEF ProfileLinks

LEMMA ProfileKeepsTypes ==
  MfaInv /\ MfaInv' /\ ProfileLinks /\ [ProfileNext]_profileVars => ProfileLinks'
<1> SUFFICES ASSUME MfaInv, MfaInv', ProfileLinks, [ProfileNext]_profileVars
             PROVE  ProfileLinks'
  OBVIOUS
<1>1. /\ orders \in Seq(OrderType) /\ orders' \in Seq(OrderType)
      /\ wins \in [Window -> [tab : Tab, visit : Nat, setup : Nat, on : BOOLEAN, name : Nat]]
      /\ account \in [secret : Nat, on : BOOLEAN, enforced : BOOLEAN, name : Nat, password : Nat]
  BY DEF MfaInv, ProfileTypes
<1>2. CASE UNCHANGED profileVars
  BY <1>2, ShownTyped DEF profileVars, OrdersGrow
<1>3. ASSUME NEW w \in Window,
             RefetchUser(w) \/ Scan(w) \/ CancelSetup(w)
      PROVE  ProfileLinks'
  <2>1. UNCHANGED <<account, orders>>
    BY <1>3 DEF RefetchUser, Scan, CancelSetup
  <2>2. scanned' \subseteq scanned \cup DOMAIN orders
    BY <1>3 DEF RefetchUser, Scan, CancelSetup, MayEnable, ProfileLinks
  <2>3. \A v \in Window : /\ wins'[v].tab = wins[v].tab /\ wins'[v].visit = wins[v].visit
                          /\ wins'[v].setup \in {NoSecret, wins[v].setup}
    <3>1. CASE RefetchUser(w)
      BY <1>1, <3>1 DEF RefetchUser
    <3>2. CASE Scan(w)
      BY <3>2 DEF Scan
    <3>3. CASE CancelSetup(w)
      BY <1>1, <3>3 DEF CancelSetup
    <3>4. QED
      BY <1>3, <3>1, <3>2, <3>3
  <2>4. OrdersGrow
    BY <2>1 DEF OrdersGrow
  <2>5. QED
    BY <2>1, <2>2, <2>3, <2>4, ShownTyped
<1>4. ASSUME NEW w \in Window, NEW kind \in Kind, NEW arg, Order(w, kind, arg), UNCHANGED wins,
             kind = "setup" => wins[w].tab = "mfa"
      PROVE  ProfileLinks'
  <2> DEFINE o == [kind |-> kind, win |-> w, visit |-> wins[w].visit, arg |-> arg,
                   st |-> "sent", ok |-> FALSE, saw |-> FALSE, lost |-> FALSE,
                   alone |-> \A i \in DOMAIN orders : Under(i) => orders[i].kind # kind]
  <2>1. orders' = Append(orders, o) /\ UNCHANGED <<account, scanned>>
    BY <1>4 DEF Order
  <2>2. o.kind = kind /\ o.win = w /\ o.visit = wins[w].visit
    OBVIOUS
  <2> HIDE DEF o
  <2>3. /\ DOMAIN orders \subseteq DOMAIN orders'
        /\ \A i \in DOMAIN orders : orders'[i] = orders[i]
        /\ \A i \in DOMAIN orders' \ DOMAIN orders : orders'[i] = o
    BY <1>1, <2>1
  <2>4. OrdersGrow
    BY <2>3 DEF OrdersGrow
  <2>5. QED
    BY <1>4, <2>1, <2>2, <2>3, <2>4, ShownTyped
<1>5. ASSUME NEW w \in Window,
             \/ SaveName(w) \/ PressSetup(w) \/ \E right \in BOOLEAN : PressPassword(w, right)
             \/ \E secret \in scanned : PressEnable(w, secret) \/ PressDisable(w, secret)
      PROVE  ProfileLinks'
  <2>1. CASE SaveName(w)
    BY <1>4, <2>1 DEF SaveName, Kind
  <2>2. CASE PressSetup(w)
    BY <1>4, <2>2 DEF PressSetup, MaySetup, Kind
  <2>3. ASSUME NEW right \in BOOLEAN, PressPassword(w, right) PROVE ProfileLinks'
    BY <1>4, <2>3 DEF PressPassword, Kind
  <2>4. ASSUME NEW secret \in scanned, PressEnable(w, secret) \/ PressDisable(w, secret)
        PROVE  ProfileLinks'
    BY <1>4, <2>4 DEF PressEnable, PressDisable, Kind
  <2>5. QED
    BY <1>5, <2>1, <2>2, <2>3, <2>4
<1>6. ASSUME NEW i \in DOMAIN orders, ReadAccount(i) \/ CommitOrder(i) \/ AnswerOrder(i) \/ LoseOrder(i)
      PROVE  ProfileLinks'
  <2>1. OrdersGrow /\ DOMAIN orders' = DOMAIN orders
    <3>1. orders[i] \in OrderType
      BY <1>1
    <3>2. CASE ReadAccount(i)
      <4>1. PICK ok \in Accepts(orders[i]) :
              orders' = [orders EXCEPT ![i].st = IF ok THEN "read" ELSE "answered", ![i].ok = ok,
                                       ![i].saw = account.on]
        BY <3>2 DEF ReadAccount
      <4> DEFINE o == [orders[i] EXCEPT !.st = IF ok THEN "read" ELSE "answered", !.ok = ok,
                                        !.saw = account.on]
      <4>2. orders' = [orders EXCEPT ![i] = o]
        BY <1>1, <4>1
      <4>3. o.kind = orders[i].kind /\ o.win = orders[i].win /\ o.visit = orders[i].visit
        BY <3>1 DEF OrderType
      <4> HIDE DEF o
      <4>4. QED
        BY <1>1, <4>2, <4>3 DEF OrdersGrow
    <3>3. CASE CommitOrder(i)
      BY <1>1, <3>1, <3>3 DEF CommitOrder, OrdersGrow, OrderType
    <3>4. CASE AnswerOrder(i)
      BY <1>1, <3>1, <3>4 DEF AnswerOrder, OrdersGrow, OrderType
    <3>5. CASE LoseOrder(i)
      BY <1>1, <3>1, <3>5 DEF LoseOrder, OrdersGrow, OrderType
    <3>6. QED
      BY <1>6, <3>2, <3>3, <3>4, <3>5
  <2>2. scanned' = scanned
    BY <1>6 DEF ReadAccount, CommitOrder, AnswerOrder, LoseOrder
  <2>3. account'.secret \in {NoSecret, account.secret} \cup DOMAIN orders
    <3>1. CASE CommitOrder(i)
      <4>1. orders[i].kind \in Kind
        <5>1. orders[i] \in OrderType
          BY <1>1
        <5>2. QED
          BY <5>1 DEF OrderType
      <4>2. account' = NewAccount(i)
        BY <3>1 DEF CommitOrder
      <4>3. QED
        BY <1>1, <4>1, <4>2 DEF NewAccount, Kind
    <3>2. CASE ~CommitOrder(i)
      BY <1>6, <3>2 DEF ReadAccount, AnswerOrder, LoseOrder
    <3>3. QED
      BY <3>1, <3>2
  <2>4. ASSUME NEW w \in Window
        PROVE  /\ wins'[w].tab = wins[w].tab /\ wins'[w].visit = wins[w].visit
               /\ wins'[w].setup \in {NoSecret, wins[w].setup} \cup
                    {j \in DOMAIN orders : /\ orders[j].win = w /\ Here(j)
                                           /\ orders[j].kind = "setup"}
    <3>1. CASE AnswerOrder(i) /\ orders[i].win = w
      <4>1. wins[w] \in [tab : Tab, visit : Nat, setup : Nat, on : BOOLEAN, name : Nat]
        BY <1>1
      <4>2. wins'[w] = OnTab(Stored(wins[w], i), i)
        BY <1>1, <3>1 DEF AnswerOrder
      <4> DEFINE u == Stored(wins[w], i)
      <4>3. /\ u.tab = wins[w].tab /\ u.visit = wins[w].visit /\ u.setup = wins[w].setup
            /\ \A x : [u EXCEPT !.setup = x].setup = x /\ [u EXCEPT !.setup = x].tab = wins[w].tab
                      /\ [u EXCEPT !.setup = x].visit = wins[w].visit
        BY <4>1 DEF Stored
      <4> HIDE DEF u
      <4>4. wins'[w] = OnTab(u, i)
        BY <4>2 DEF u
      <4>5. CASE ~Here(i)
        <5>1. wins'[w] = u
          BY <4>4, <4>5 DEF OnTab
        <5>2. QED
          BY <4>3, <5>1
      <4>6. CASE Here(i) /\ orders[i].kind = "setup" /\ orders[i].ok
        <5>1. wins'[w] = [u EXCEPT !.setup = i]
          BY <4>4, <4>6 DEF OnTab
        <5>2. QED
          BY <3>1, <4>3, <4>6, <5>1
      <4>7. CASE Here(i) /\ ~(orders[i].kind = "setup" /\ orders[i].ok)
        BY <4>3, <4>4, <4>7 DEF OnTab
      <4>8. QED
        BY <4>5, <4>6, <4>7
    <3>2. CASE ~(AnswerOrder(i) /\ orders[i].win = w)
      <4>1. wins'[w] = wins[w]
        BY <1>1, <1>6, <3>2 DEF ReadAccount, CommitOrder, AnswerOrder, LoseOrder
      <4>2. QED
        BY <4>1
    <3>3. QED
      BY <3>1, <3>2
  <2>5. QED
    BY <2>1, <2>2, <2>3, <2>4, ShownTyped
<1>7. ASSUME NEW w \in Window, NEW t \in Tab, OpenTab(w, t)
      PROVE  ProfileLinks'
  BY <1>7, OpenedTyped
<1>8. QED
  BY <1>2, <1>3, <1>5, <1>6, <1>7 DEF ProfileNext

LEMMA ProfileIsTyped == ProfileSpec => []ProfileTypeOK
<1>1. MfaInv /\ ProfileLinks => ProfileTypeOK
  <2> SUFFICES ASSUME MfaInv, ProfileLinks PROVE ProfileTypeOK
    OBVIOUS
  <2>1. {account.on, undone} \subseteq BOOLEAN
    BY DEF MfaInv, ProfileTypes
  <2>2. \A w \in Window : wins[w].tab \in Tab /\ wins[w].visit \in 1 .. MaxVisits
    BY ProfileAssumption DEF MfaInv, ProfileTypes, ProfileLinks
  <2>3. \A i \in DOMAIN orders : /\ orders[i].kind \in Kind
                                 /\ orders[i].st \in {"sent", "read", "answered", "over"}
    <3>1. \A i \in DOMAIN orders : orders[i] \in OrderType
      BY DEF MfaInv, ProfileTypes
    <3>2. QED
      BY <3>1 DEF OrderType
  <2>4. QED
    BY <2>1, <2>2, <2>3 DEF ProfileLinks, ProfileTypeOK
<1>2. QED
  BY <1>1, InitMfa, StepMfa, ProfileStarts, ProfileKeepsTypes, PTL DEF ProfileSpec

-----------------------------------------------------------------------------
(* Whatever page is shown, its part has values of its types, and its       *)
(* counters keep their bounds.                                             *)
THEOREM FrontendIsTyped == FrontendSpec => []FrontendTypeOK
<1>1. FrontendInit => part \in Part
  BY FrontendAssumption DEF FrontendInit
<1>2. part \in Part /\ [FrontendNext]_frontendVars => (part \in Part)'
  BY DEF FrontendNext, frontendVars
<1>3. /\ part \in Part
      /\ CacheTypeOK /\ ListTypeOK /\ BulkTypeOK /\ UpdateTypeOK /\ ImportsTypeOK
      /\ SearchTypeOK /\ AdminTypeOK /\ FormsTypeOK /\ ProfileTypeOK /\ RolesTypeOK
      => FrontendTypeOK
  BY DEF Part, FrontendTypeOK
<1>4. FrontendSpec => []CacheTypeOK /\ []ListTypeOK /\ []BulkTypeOK /\ []UpdateTypeOK
  BY CacheIsAPart, CacheIsTyped, ListIsAPart, ListIsTyped, BulkIsAPart, BulkIsTyped,
     UpdateIsAPart, UpdateIsTyped
<1>5. FrontendSpec => []ImportsTypeOK /\ []SearchTypeOK /\ []AdminTypeOK
  BY ImportIsAPart, ImportsAreTyped, SearchIsAPart, SearchIsTyped, AdminIsAPart, AdminIsTyped
<1>6. FrontendSpec => []FormsTypeOK /\ []ProfileTypeOK /\ []RolesTypeOK
  BY FormIsAPart, FormsAreTyped, ProfileIsAPart, ProfileIsTyped, RolesIsAPart, RolesAreTyped
<1>7. FrontendSpec => [](part \in Part)
  BY <1>1, <1>2, PTL DEF FrontendSpec
<1>8. QED
  BY <1>3, <1>4, <1>5, <1>6, <1>7, PTL

(* Whatever page is shown, nobody who has MFA on is locked out by the      *)
(* profile page and its endpoints.                                         *)
THEOREM FrontendLocksNobodyOut == FrontendSpec => []NotLockedOut
  BY ProfileIsAPart, NobodyLockedOut

(* Whatever page is shown, lists, imports, searches, restores, updates,    *)
(* forms, the profile, roles and the query cache keep what is proved of    *)
(* each.                                                                   *)
THEOREM FrontendIsSafe ==
  FrontendSpec => [](/\ CreatedOnce
                     /\ ImportsRegister
                     /\ RowsAreShown
                     /\ ShownMatches
                     /\ PageHasRows
                     /\ ConfirmServesOnce
                     /\ OneReloadPerSuccess
                     /\ ProfileShown
                     /\ OfferedAsAllowed
                     /\ OwnWritesAreShown
                     /\ SentFitsTheApi
                     /\ SavedAsEntered
                     /\ RefusedForAReason)
  BY ListIsAPart, DialogsCreateOnce, TablesShowTheirRows, ImportIsAPart, ImportsAreRegistered,
     SearchIsAPart, SearchesMatch, PagesHaveRows, AdminIsAPart, RestoresAreConfirmed,
     UpdateIsAPart, ReloadsHaveASuccess, ProfileIsAPart, NameIsShown,
     RolesIsAPart, OffersAreAllowed,
     CacheIsAPart, WritesAreShown,
     FormIsAPart, BodiesFitTheApi, EntriesAreStored, RefusalsAreNamed, PTL

(* Whatever page is shown, answers and runs close the dialogs they belong  *)
(* to, and bulk edits undo no change of tags that they had seen.           *)
THEOREM FrontendStepsAreSafe ==
  FrontendSpec => ClosedByItsOwnCall /\ EndsItsOwnWork /\ TagsLostOnlyInARace
  BY ListIsAPart, AnswersKnowTheirDialog, BulkIsAPart, EditsEndTheirOwnWork,
     EditsLoseTagsInARaceOnly
=============================================================================
