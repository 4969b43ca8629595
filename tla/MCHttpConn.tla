----------------------------- MODULE MCHttpConn -----------------------------
(* An instance of HttpConn: a GET and a form with no CRLF after it, both   *)
(* to keep the connection.  Cut in segments they are also requests that do *)
(* not ask for it, and lines that are no requests.                         *)
EXTENDS HttpConn

MCRequests ==
    {<<Get, CR, LF, KeepAlive, CR, LF, CR, LF>>,
     <<Post, CR, LF, FormType, CR, LF, KeepAlive, CR, LF, CR, LF, Form>>}
=============================================================================
