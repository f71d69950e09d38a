SPECIFICATION Spec
CONSTANTS
  Calls = {c1, c2, c3}
  NoCall = noCall
  BatchLimit = 2
  MaxBytes = 1
  MaxOther = 1
INVARIANT BytesAccounted
PROPERTIES EventsLeaveWhenConfirmed QuotaBaseNearOthers CreditsOnce WaitersResume
