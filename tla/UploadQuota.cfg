SPECIFICATION FairSpec
CONSTANTS
  Videos = {v1, v2}
  NoVideo = NoVideo
  Sizes = {1, 2}
  MaxVideos = 2
  MaxStorage = 3
CHECK_DEADLOCK FALSE
INVARIANTS UploadsWithinPlan SlotsMatchUploads
PROPERTIES NoResurrection ReservationSettles
