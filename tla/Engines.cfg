SPECIFICATION Spec
CONSTANTS
  None = None
  Speech <- MCSpeech
  Scale = 8
  FirstCapacity = 3
  Models <- MCModels
  Speakers = {"ann", "bob", "eve"}
  MaxPiperFaults = 3
  MaxUtterances = 3
  Frame = 2
  Sizes = {0, 1, 3}
  MaxSherpaFaults = 3
  MaxAudio = 9
INVARIANTS TypeOK SpeakerHonoured TableBounds  TranscriptCovers HandlesReleased
PROPERTY PiperImplementsTts
