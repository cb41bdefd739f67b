\* A keyword of one letter, and texts of up to three bytes.
CONSTANTS
  Letters <- MCLetters
  Digits <- MCDigits
  Apostrophe = "'"
  Dot = "."
  Underscore = "_"
  Delimiters <- MCDelimiters
  Documents <- MCDocuments
  Terms <- MCTerms
  Hash <- MCHash
  Threshold <- MCThreshold
  MaxTermWeight = 2
  MaxTokenBytes = 3
  MaxBytes = 3
  Keywords <- LetterKeywords
  JaccardWordChars <- MCJaccardWordChars
  MaxGrams = 6
  MaxTextGrams = 6
  LastClass = 2
  CodingIntent = 0
  MathIntent = 1
  Bucket <- MCBucket
  Buckets <- MCBuckets
  PromptBytes = 4
  MaxWeight = 1
  MaxScore = 7
  Files <- MCFiles
  Policies <- LetterPolicies
SPECIFICATION ClassifierSpec
INVARIANTS
  ExactKeywordMatches
CHECK_DEADLOCK FALSE
