SPECIFICATION LiveSpec
CONSTANTS
  MaxBreaks = 2
  MaxMessages = 1
PROPERTY
  MenuKnowsClient
