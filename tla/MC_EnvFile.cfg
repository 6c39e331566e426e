\* Any order of applies, `up`s and onboard runs on any short .env.
CONSTANTS
  Files <- ShortFiles
  Editable = {"GROQ_API_KEY", "GEMINI_API_KEY"}
  GENERATED <- Secrets
  Keys = {"k", ""}
  Fresh = {"g1", "g2"}
  Quoted <- Quotes
  Unset = {"", "your-key"}
SPECIFICATION Spec
INVARIANT TypeOK
PROPERTIES TidyKept WritesReadBack SecretsKept
