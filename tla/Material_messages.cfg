SPECIFICATION Spec
CONSTANTS
  Links = {{"lark"}, {"sheet"}, {"bitable", "web"}, {"youtube"}}
  Readings = {{"text"}, {"text", "failed"}, {"failed"}, {"marked"}, {"blank"}}
  Installed = {"tesseract", "gemini", "pdftotext"}
  None = None
  MaxMessages = 4
  MaxCrashes = 1
 
PROPERTY AnswersFit
CHECK_DEADLOCK FALSE
