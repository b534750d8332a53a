SPECIFICATION FairSpec
CONSTANTS
  MaxUid = 3
  MaxEpoch = 2
  MaxChanges = 3
INVARIANTS NoMailSkipped NoForeignRows HistoryNotAnnounced
PROPERTIES DropsJustified Converges
