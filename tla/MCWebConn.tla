----------------------------- MODULE MCWebConn ------------------------------
(***************************************************************************)
(* Instances of WebConn for TLC: what browsers and others may send.        *)
(***************************************************************************)
EXTENDS WebConn

CONSTANTS c1, c2

First(method, version, path) == <<"first", method, version, path>>

(* Two pieces fill the buffer for a chunk: one full, and one that is not.  *)
HomePage == <<<<"page", 1>>, <<"page", 2>>, <<"page", 3>>>>

Asks(pieces, code, text, n) ==
    [pieces |-> pieces, code |-> code, text |-> text, commands |-> n]

Home == Asks(<<First("GET", "1.1", "/"), <<"end">>>>, 200, HomePage, 0)
OldHome == Asks(<<<<"part">>, First("GET", "1.0", "/"), <<"end">>>>, 200, HomePage, 0)
Form == Asks(<<First("POST", "1.1", "/a/ctrls"), <<"length", 1>>, <<"end">>, <<"form">>>>,
             200, <<>>, 1)
FormAndMore == Asks(Form.pieces \o <<<<"other">>>>, 200, <<>>, 1)
LongForm == Asks(<<First("POST", "1.0", "/ctrls"), <<"length", 2>>, <<"end">>, <<"part">>,
                   <<"form">>>>, 302, <<<<"link">>>>, 1)
WrongForm == Asks(<<First("POST", "1.1", "/ctrls"), <<"length", 1>>, <<"end">>, <<"other">>>>,
                  400, <<<<"refused">>>>, 0)
Lost == Asks(<<First("POST", "1.1", "/"), <<"end">>>>, 404, <<<<"notfound">>>>, 0)
Refused == Asks(<<First("GET", "1.1", "/"), <<"bad">>, <<"end">>>>, 0, <<>>, 0)
Socket == Asks(<<First("GET", "1.1", "/ws"), <<"handshake">>, <<"end">>, <<"part">>,
                 <<"ping">>, <<"close">>>>, 101, <<>>, 0)
Listener == Asks(<<First("GET", "1.1", "/ws"), <<"handshake">>, <<"end">>>>,
                 101, <<>>, 0)
NoSocket == Asks(<<First("GET", "1.1", "/ws"), <<"end">>>>, 400, <<<<"refused">>>>, 0)

(* Every request on one connection, a websocket that listens on the other. *)
AllRequests == {Home, OldHome, Form, FormAndMore, LongForm, WrongForm, Lost, Refused,
                Socket, Listener, NoSocket}
Together == {[c \in Conn |-> IF c = c1 THEN r ELSE s] : r \in AllRequests, s \in {Listener}}
=============================================================================
