---------------------------------- MODULE Ajax ----------------------------------
(* What the pages of the web interface know of a command they sent.              *)
(* A page posts a command to lib/cmd.php with $.ajax and a success callback;     *)
(* JavaScript runs one callback to its end before the next. Answers come in any  *)
(* order. A request whose HTTP exchange fails calls no success callback.         *)

\* An answer: no text, some text, or text with "Failed" or "Error" in it.
Answers == {"empty", "text", "failed"}

\* containErrors, asked of the HTML that writeRsp made of the answer.
ContainErrors(rsp) == rsp = "failed"

\* The test of the steps whose command is silent when it succeeds: rsp.length.
HasText(rsp) == rsp # "empty"

=================================================================================
