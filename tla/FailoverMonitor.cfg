CONSTANTS
  Interval = 2
  Timeout = 3
  Grace = 5
SPECIFICATION FairSpec
INVARIANTS TypeOK CountdownHonest
PROPERTIES PromotesOnlyAfterTimeout NoticeWithholds LostPeerIsReplaced
