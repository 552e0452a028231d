------------------------------ MODULE Marshal ------------------------------
(***************************************************************************)
(* What happens to the data of one call: the Lua string becomes a C        *)
(* buffer, the runtime reads it through get_req and answers with another   *)
(* buffer, and the event handler makes Lua values of that.  The echo       *)
(* runtimes of the repository are here, and any runtime that uses respond  *)
(* as documented.                                                          *)
(*                                                                         *)
(* A string is a sequence of bytes, of which three kinds matter: Nul,      *)
(* bytes that are text, and bytes that are no UTF-8.  A buffer is the      *)
(* sequence of all its bytes, None is nil and NULL.                        *)
(***************************************************************************)
EXTENDS Integers, Sequences

CONSTANTS
  Str,       \* the strings that are sent and answered
  Runtime,   \* the runtimes to look at
  Frame,     \* what is on the stack of the coroutine below the results
  None

Nul == "nul"
Text == "text"
Bad == "bad"        \* a byte that is not part of any UTF-8 text
Subst == "subst"    \* U+FFFD, which replaces it

Byte == {Nul, Text, Bad, Subst}

ASSUME StrAssumption == Str \subseteq Seq({Nul, Text, Bad})
ASSUME NoneAssumption == None \notin Seq(Byte)

VARIABLES
  stage,     \* "lua", "posted", "js", "responded", "done"
  who,       \* the runtime
  req,       \* the Lua value that is sent
  buf, len,  \* ctx->req, ctx->req_len
  js,        \* Node.js: the value get_req returned
  rc, rsp, rspLen,  \* ctx->rc, ctx->rsp, ctx->rsp_len
  sent,      \* the data the runtime means to send
  out        \* the values the coroutine is resumed with

vars == <<stage, who, req, buf, len, js, rc, rsp, rspLen, sent, out>>

Init ==
  /\ stage = "lua"
  /\ who \in Runtime
  /\ req \in Str \cup {None}
  /\ buf = None /\ len = 0 /\ js = None
  /\ rc = 0 /\ rsp = None /\ rspLen = 0 /\ sent = None
  /\ out = <<>>

-----------------------------------------------------------------------------
(* C strings.                                                              *)

Terminated(b) == \E i \in DOMAIN b : b[i] = Nul

FirstNul(b) == CHOOSE i \in DOMAIN b : b[i] = Nul /\ \A k \in 1 .. i - 1 : b[k] # Nul

(* What strdup, lua_pushstring and the like find in a buffer.  One that is *)
(* not terminated is read past its end, where anything may be.             *)
CString(b) ==
  IF Terminated(b) THEN {SubSeq(b, 1, FirstNul(b) - 1)}
                   ELSE {b \o s : s \in Str}

-----------------------------------------------------------------------------

Post_NoNul ==
  /\ stage = "lua"
  /\ IF req = None THEN buf' = None /\ len' = 0
                   ELSE buf' = req /\ len' = Len(req)
  /\ stage' = "posted"
  /\ UNCHANGED <<who, req, js, rc, rsp, rspLen, sent, out>>

(* post() of resty_ffi.lua: ffi.copy copies the string and a Nul.          *)
Post ==
  /\ stage = "lua"
  /\ IF req = None THEN buf' = None /\ len' = 0
                   ELSE buf' = Append(req, Nul) /\ len' = Len(req)
  /\ stage' = "posted"
  /\ UNCHANGED <<who, req, js, rc, rsp, rspLen, sent, out>>

(* ngx_http_lua_ffi_respond                                                *)
Respond(c, b, n) ==
  /\ rc' = c /\ rsp' = b /\ rspLen' = n
  /\ stage' = "responded"
  /\ UNCHANGED <<who, req, buf, len, out>>

(* Go and Java: malloc(len) and memcpy.  malloc(0) is not NULL.            *)
CopyEcho ==
  /\ stage = "posted" /\ who \in {"go", "java"}
  /\ Respond(0, IF buf = None THEN <<>> ELSE SubSeq(buf, 1, len), len)
  /\ UNCHANGED <<js, sent>>

(* Python and Rust: strdup.  These runtimes must not be sent nil.          *)
StrdupEcho ==
  /\ stage = "posted" /\ who \in {"python", "rust"}
  /\ buf # None
  /\ \E s \in CString(buf) : Respond(0, Append(s, Nul), 0)
  /\ UNCHANGED <<js, sent>>

Utf8(s) == [i \in DOMAIN s |-> IF s[i] = Bad THEN Subst ELSE s[i]]

(* get_req of the Node.js binding: napi_create_string_utf8, or undefined.  *)
NodeGetReq ==
  /\ stage = "posted" /\ who = "node"
  /\ js' = IF buf = None THEN None ELSE Utf8(SubSeq(buf, 1, len))
  /\ stage' = "js"
  /\ UNCHANGED <<who, req, buf, len, rc, rsp, rspLen, sent, out>>

(* respond of the binding: the buffer is str_size + 1 bytes of calloc; the *)
(* `len' that napi fills is not the one that is passed on, which stays 0.  *)
(* With undefined for the string str_size is not set: calloc may fail or   *)
(* return zeros.                                                           *)
NodeRespond ==
  /\ stage = "js"
  /\ IF js = None
     THEN \E b \in {None, <<Nul>>} : Respond(0, b, 0)
     ELSE Respond(0, Append(js, Nul), 0)
  /\ UNCHANGED <<js, sent>>

(* A runtime that follows the README: no data, data with its length, or a  *)
(* terminated string with length 0; any status.                            *)
AnyRespond ==
  /\ stage = "posted" /\ who = "any"
  /\ \E c \in {0, 7}, s \in Str \cup {None} :
       /\ sent' = s
       /\ \/ s = None /\ Respond(c, None, 0)
          \/ s \notin {None, <<>>} /\ Respond(c, s, Len(s))
          \/ s # None /\ ~Terminated(s) /\ Respond(c, Append(s, Nul), 0)
  /\ UNCHANGED js

-----------------------------------------------------------------------------
(* ngx_http_lua_ffi_event_handler                                          *)

Value_CString == IF rsp = None THEN {None} ELSE CString(rsp)

(* The response as a Lua value.                                            *)
Value ==
  IF rsp = None THEN {None}
  ELSE IF rspLen # 0 THEN {SubSeq(rsp, 1, rspLen)} ELSE CString(rsp)

Pushes_NoNil(v) ==
  <<rc = 0>> \o (IF rc # 0 THEN <<rc>> ELSE <<>>) \o <<v>>

(* The pushes, each with its own condition.                                *)
Pushes(v) ==
  <<rc = 0>> \o (IF rc # 0 THEN <<rc>> ELSE <<>>)
  \o <<v>> \o (IF rc = 0 THEN <<None>> ELSE <<>>)

(* ngx_http_lua_ffi_resume passes a number to ngx_http_lua_run_thread,     *)
(* whatever was pushed: so many are taken from the top of the stack.       *)
NArgs == 3

Resume(stack) == out' = [i \in 1 .. NArgs |-> stack[Len(stack) - NArgs + i]]

EventHandler ==
  /\ stage = "responded"
  /\ \E v \in Value : Resume(<<Frame>> \o Pushes(v))
  /\ stage' = "done"
  /\ UNCHANGED <<who, req, buf, len, js, rc, rsp, rspLen, sent>>

Next ==
  \/ Post \/ CopyEcho \/ StrdupEcho \/ NodeGetReq \/ NodeRespond \/ AnyRespond
  \/ EventHandler

Spec == Init /\ [][Next]_vars

-----------------------------------------------------------------------------
(* Correctness.                                                            *)

(* The results of a call of a runtime that uses respond as documented:     *)
(* true, the data and nil, or false, the status and the data.  The data is *)
(* what the runtime sent, Nul bytes, no data and the empty string          *)
(* included, and nothing of what is below on the stack is among them.      *)
DataDelivered ==
  stage = "done" /\ who = "any" =>
    out = IF rc = 0 THEN <<TRUE, sent, None>> ELSE <<FALSE, rc, sent>>

Data == IF rc = 0 THEN out[2] ELSE out[3]

Has(s, x) == \E i \in DOMAIN s : s[i] = x

Cut(s) == IF Has(s, Nul) THEN SubSeq(s, 1, FirstNul(s) - 1) ELSE s

(* The echo runtimes give back what they were sent: Go and Java anything   *)
(* that is not empty, Python and Rust up to the first Nul, and Node.js the *)
(* same with what is no text replaced.                                     *)
EchoExact ==
  stage = "done" /\ who # "any" /\ req # None =>
    /\ who \in {"go", "java"} /\ req # <<>> => Data = req
    /\ who \in {"python", "rust"} => Data = Cut(req)
    /\ who = "node" => Data = Utf8(Cut(req))

=============================================================================
