SPECIFICATION Spec
CONSTANTS
  Links = {{"lark"}, {"sheet"}, {"bitable", "web"}, {"youtube"}}
  Readings = {{"text"}, {"text", "failed"}, {"failed"}, {"marked"}, {"blank"}}
  Installed = {"tesseract", "gemini", "pdftotext"}
  None = None
  MaxMessages = 2
  MaxCrashes = 0
INVARIANT AttachmentsAdd
CHECK_DEADLOCK FALSE
