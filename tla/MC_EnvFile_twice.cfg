\* A variable with two lines: the page changes the first, load_env keeps the last.
CONSTANTS
  Files <- ShortFiles
  Editable = {"GROQ_API_KEY", "GEMINI_API_KEY"}
  GENERATED <- Secrets
  Keys = {"k", ""}
  Fresh = {"g1", "g2"}
  Quoted <- Quotes
  Unset = {"", "your-key"}
SPECIFICATION Spec
PROPERTY AppliedReadsBack
