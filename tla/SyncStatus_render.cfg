\* Every status with counters up to 4, published in any order, and the view
\* updated at any moment from stats with or without tx_stats.
SPECIFICATION Spec
CONSTANTS
    MaxCount = 4
    Gauges = {1}
INVARIANTS
    TypeOK
    PercentIsFloor
    BodySyncPercentSpansTheRange
    PibdProgressIsShown
    FieldsShowWhatTheirLabelsSay
