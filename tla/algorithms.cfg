SPECIFICATION Spec
CONSTANTS
  LmStride = 2
  LmInitial = 1
  LmContext = 7
  LmPrompts = {1, 3}
  LmGens = 3
  Codebooks = 4
  Codes = 3
  FrameTemps = {0, 7, 9}
  FrameTopKs = {1, 2}
  Penalties = {1, 2}
  Requests = 2
  FramesEach = 2
  VocabSize = 4
  ReservedIds = 2
  EosId = 3
  Scores = {0, 2}
  TopKs = {0, 1, 2, 3}
  TopPs = {0, 2, 3, 4}
  Exp <- MCExp
  Languages = {0, 1, 2}
  Speakers = {0, 1}
  InstructLens = {0, 1}
  RefLens = {0, 2}
  ContentLens = {1, 2, 4}
  PromptSteps = 5
  HiggsBooks = {1, 2, 4}
  HiggsMax = 11
  BlockFrames = {1, 3}
  HoldFrames = 1
  WindowFrames = {0, 2}
  Buffers = {0, 1, 2}
  Parts = 4
  FaHop = 2
  FaHalf = 3
  FaChunk = 2
  FaRows = 1
  FaFilter = 3
  FaSlack = 1
  FaOversize = 2
  FaAudio = {2, 5, 8, 11}
  FaWords <- MCFaWords
  FaCalls = 3
  Classes = {0, 1, 3}
  TimedWords = {1, 2}
  Ladders <- MCLadders
  Window = 1
  NetPrime = 11
  NetFiles <- MCNetFiles
  V1Rates <- MCV1Rates
  NetBooks = 2
  NetTfm = 2
  NetStride = 3
  NetClips <- MCNetClips
  Blocks = {1, 23, 140}
  Longest960 = 420
  DecodeCtx = 256
  MimiFrames = {1, 7, 64, 65, 200}
  SpanFrames = 64
  SeanetCtx = 16
  ClipLens <- MCClipLens
  RefLens24 <- MCRefLens
  Taps = {2, 3, 4}
  CodeBooks <- MCCodeBooks
  Features <- MCFeatures
  HookLayers = 2
  HookSteps = 1
  StretchHop = 2
  StretchReach = 1
  StretchStride = 2
  StretchDead = 3
  StretchSpeeds <- MCStretchSpeeds
  StretchSounds <- MCStretchSounds
  StretchChunks = {1, 3, 4, 15, 18}
  EncFrame = 3
  EncInput = 10
  EncChunks = {0, 1, 4, 7}
INVARIANTS
  AttendsOwnPast
  CodesFollow
  SamplersFaithful
  PromptFaithful
  SpeechIntact
  StreamFaithful
  TimingsSound
  NetFaithful
  CodecsFaithful
  HooksInvisible
  OutputFaithful
