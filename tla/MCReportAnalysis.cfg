SPECIFICATION Spec
CONSTANTS
    NoText = NoText
    NoTemplate = NoTemplate
    General = General
    Unchosen = Unchosen
    NoPart = NoPart
    NoDob = NoDob
    BadDob = BadDob
    NoRank = NoRank
    NoPu = NoPu
    NoSubdivision = NoSubdivision
    NoDate = NoDate
    NoTime = NoTime
    NoArticle = NoArticle
    NoType = NoType
    NoFragment = NoFragment
    NoEvent = NoEvent
    NoReport = NoReport
    NoCase = NoCase
    Texts <- TextSet
    Size <- SizeOf
    Lexical <- LexicalSim
    Semantic <- SemanticSim
    MinEventChars = 100
    MinSliceChars = 300
    AnchorMinChars = 10
    StartMinSim = 60
    WeakMinSim = 85
    FallbackMaxElements = 2
    MaxReportEvents = 2
    BirthWindow = 60
    Letters <- LettersOf
    Initial <- InitialOf
    Nominative <- NominativeOf
    FullRank <- FullRankOf
    Cyrillic <- CyrillicPart
    Abbreviation <- Abbreviated
    TitleCase <- Titled
    Verbish <- VerbForm
    NameLike <- KnownName
    Particles <- ParticleSet
    StopList <- StopListSet
    EmployeeMarkers <- EmployeeMarkerSet
    RankMarkers <- RankMarkerSet
    Connectors <- ConnectorSet
    IsRank <- RankWords
    RankWindow = 40
    Form <- FormOf
    Ratio <- RatioOf
    SurnameThreshold = 90
    NameThreshold = 85
    WordChars <- CharsOf
    Part <- PartOf
    StopWords <- Stop
    AcceptThreshold = 75
    SemanticThreshold = 60
    LowLexicalFactor = 10
    TopK = 5
    DayUnits = 2880
    IsRegex <- RegexOf
    Alike <- AlikeOf
    Boost <- BoostOf
    MinScore = 50
    ClassifierTopK = 5
    SemanticPatternThreshold = 20
    SimilarMinScore = 50
    Gateway = "orm"
    UnitsPerMinute = 2
    DeltaMinutes = 30
    DayMinutes = 1440
    FallbackMinutes = 10080
    StageLimit = 2
    OffenderLimit = 2
    NoDobLimit = 2
    QueryWindow = 80
    GreenThreshold = 85
    YellowThreshold = 75
    TimeErrorMinutes = 30
    Reports <- ReportKinds
    Cases <- CaseKinds
INVARIANTS
    TypeOK
    AnchorsAgreeWithMarkers
    CutKeepsSomething
    RankedAreStaff
    TimeOutsideDate
    AcceptedIsNamed
    PredictedIsBest
    PairsOneToOne
    NoPairIsLeft
    GreenOffendersAreComplete
    MissingIsShown
    CommentsExplainColours
    MatchedByOffendersHasPair
    TwoOfThreeIsFound
    ClosestOfEqual
PROPERTIES
    NobodyIsDropped
CHECK_DEADLOCK FALSE
