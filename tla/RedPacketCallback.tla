-------------------------- MODULE RedPacketCallback --------------------------
(***************************************************************************)
(* The IM server's "before" callbacks, rpc/chat/callback.go: before a     *)
(* friend request, and before a single or group message is sent.  A       *)
(* message carrying a red packet is passed on to the red-packet service   *)
(* with an HTTP POST (redpacket/http_client.go) whose answer decides      *)
(* whether the IM server sends the message.                               *)
(*                                                                         *)
(* Each callback is one request of the IM server, identified by a         *)
(* message of Msgs.  What the handler branches on is the shape of the     *)
(* request body, one of Shapes, which Init chooses: the JSON decodes      *)
(* that fail, the content types, the customType ranges and the fields    *)
(* the red-packet branches look for.  The JSON itself, the customType     *)
(* constants and the service's business rules are outside this           *)
(* repository and are left out: the service answers success or an error  *)
(* code as it likes, and records a packet sent or received only when it  *)
(* answers success.                                                       *)
(*                                                                         *)
(* The HTTP exchange follows the usual network idiom: `net` is the set of *)
(* requests and responses in flight; Lose drops one, and is not in the    *)
(* fairness.  The client's timeout (config.RpcRedPacket.Timeout) ends a   *)
(* POST that has no answer; a request still in flight may be served      *)
(* after it.                                                              *)
(***************************************************************************)
CONSTANTS
    Msgs,   \* the callbacks the IM server makes, one per message or friend request
    None

(***************************************************************************)
(* The shapes of a callback body that the handlers tell apart.            *)
(***************************************************************************)
FriendShapes == {"friend_no_user", "friend_enabled", "friend_disabled"}
MsgShapes ==
    { "bad_body",       \* json.Unmarshal of req.Body fails
      "not_custom",     \* not a user message of content type Custom
      "bad_content",    \* data.Content is not a JSON object
      "data_not_string",\* content["data"] is missing or not a string
      "bad_data",       \* content["data"] is not a JSON object
      "other_type",     \* customType missing or outside the red-packet ranges
      "send",           \* a send red packet with its data.data parameters
      "send_no_params", \* a send red packet whose data.data is not an object
      "receive",        \* a receive red packet with a redPacketId
      "receive_no_id" } \* a receive red packet without a string redPacketId
Shapes == FriendShapes \cup MsgShapes \cup {"bad_command"}

\* What the IM server gets back: a gRPC error, or the response's codes.
Outcomes == {"error", "pass", "next_stop", "action_stop"}
\* pass: ActionCode 0, NextCode 0; next_stop: NextCode 1; action_stop: ActionCode 1.

\* What the service's response decodes to.
Codes == {"success", "failure", "garbled"}

VARIABLES
    shape,    \* message -> the shape of its callback body
    pc,       \* message -> "pending", "posting" or "done"
    result,   \* message -> the Outcome returned to the IM server, or None
    net,      \* HTTP requests and responses in flight
    sent,     \* the service's record: messages whose packet it created
    received  \* the service's record: messages whose receive it accepted

vars == <<shape, pc, result, net, sent, received>>

Request(m) == [kind |-> "request", msg |-> m, path |-> IF shape[m] = "send"
                                                      THEN "/redPacket/send"
                                                      ELSE "/redPacket/receive"]
Response(m, code) == [kind |-> "response", msg |-> m, code |-> code]

Init ==
    /\ shape \in [Msgs -> Shapes]
    /\ pc = [m \in Msgs |-> "pending"]
    /\ result = [m \in Msgs |-> None]
    /\ net = {}
    /\ sent = {}
    /\ received = {}

Answer(m, o) ==
    /\ pc' = [pc EXCEPT ![m] = "done"]
    /\ result' = [result EXCEPT ![m] = o]

(***************************************************************************)
(* handleCallbackBeforeMsg, up to the red-packet handlers: a failed      *)
(* decode is an error; content["data"].(string) is an unchecked type     *)
(* assertion, so a custom message without a string "data" panics, which  *)
(* the gRPC server's recovery turns into an error; every message that is *)
(* not a red packet passes.                                              *)
(***************************************************************************)
BeforeMsgOutcome(sh) ==
    IF sh \in {"bad_body", "bad_content", "data_not_string", "bad_data"}
    THEN "error"
    ELSE "pass"

\* handleCallbackBeforeAddFriend: GetAttribute of ToUserID, then the
\* AllowAddFriend check; a refusal is ErrRefuseFriend, a gRPC error.
BeforeAddFriendOutcome(sh) ==
    IF sh = "friend_enabled" THEN "pass" ELSE "error"

(***************************************************************************)
(* OpenIMCallback: the switch on req.Command.  The callbacks that need no *)
(* service answer; SendRedPacket without params and ReceiveRedPacket     *)
(* without a redPacketId fall through to ActionCode 0, NextCode 0.       *)
(***************************************************************************)
OpenIMCallback(m) ==
    /\ pc[m] = "pending"
    /\ shape[m] \notin {"send", "receive"}
    /\ Answer(m, CASE shape[m] \in FriendShapes -> BeforeAddFriendOutcome(shape[m])
                   [] shape[m] \in MsgShapes    -> BeforeMsgOutcome(shape[m])
                   [] OTHER                     -> "error")
    /\ UNCHANGED <<shape, net, sent, received>>

(***************************************************************************)
(* SendRedPacket / ReceiveRedPacket: SyncPost of the params (with        *)
(* clientMsgID) to /redPacket/send, or of the redPacketId to              *)
(* /redPacket/receive.  The handler waits for the answer.                *)
(***************************************************************************)
SyncPost(m) ==
    /\ pc[m] = "pending"
    /\ shape[m] \in {"send", "receive"}
    /\ pc' = [pc EXCEPT ![m] = "posting"]
    /\ net' = net \cup {Request(m)}
    /\ UNCHANGED <<shape, result, sent, received>>

\* The service takes a request and replies; it records only what it accepts.
Serve(m) ==
    /\ Request(m) \in net
    /\ \E code \in Codes :
          /\ net' = (net \ {Request(m)}) \cup {Response(m, code)}
          /\ sent' = IF code = "success" /\ shape[m] = "send" THEN sent \cup {m} ELSE sent
          /\ received' = IF code = "success" /\ shape[m] = "receive"
                         THEN received \cup {m} ELSE received
    /\ UNCHANGED <<shape, pc, result>>

\* A failed POST answered like a successful one (ActionCode 0, NextCode 0).
PostFailedOutcomePass(m) == "pass"

(***************************************************************************)
(* SyncPost returned an error: ErrNetwork, or ErrData for a response that *)
(* is not JSON.  SendRedPacket answers NextCode 1, ReceiveRedPacket       *)
(* ActionCode 1.                                                          *)
(***************************************************************************)
PostFailedOutcome(m) ==
    IF shape[m] = "send" THEN "next_stop" ELSE "action_stop"

(***************************************************************************)
(* The decoded answer: Code 200 passes, any other code is NextCode 1,    *)
(* and a response that is not JSON makes SyncPost return ErrData.        *)
(***************************************************************************)
AnswerOutcome(m, code) ==
    CASE code = "success" -> "pass"
      [] code = "failure" -> "next_stop"
      [] OTHER            -> PostFailedOutcome(m)

\* The answer arrives before the timeout and the handler returns.
ReceiveAnswer(m) ==
    /\ pc[m] = "posting"
    /\ \E code \in Codes :
          /\ Response(m, code) \in net
          /\ net' = net \ {Response(m, code)}
          /\ Answer(m, AnswerOutcome(m, code))
    /\ UNCHANGED <<shape, sent, received>>

\* A client with no deadline (Timeout 0 in net/http): it never gives up.
PostNoTimeout(m) ==
    /\ pc[m] = "posting"
    /\ FALSE
    /\ UNCHANGED vars

(***************************************************************************)
(* The HTTP client's timeout: the POST returns an error while the request *)
(* or its answer is still in flight, racing the answer.  What is in     *)
(* flight stays there: the service may still serve the request, and its *)
(* late answer is dropped.                                              *)
(***************************************************************************)
PostTimeout(m) ==
    /\ pc[m] = "posting"
    /\ Answer(m, PostFailedOutcome(m))
    /\ UNCHANGED <<shape, net, sent, received>>

\* The network loses a request or a response.
Lose ==
    /\ \E msg \in net : net' = net \ {msg}
    /\ UNCHANGED <<shape, pc, result, sent, received>>

\* A late answer, after the handler has returned, is dropped.
DropLate(m) ==
    /\ pc[m] = "done"
    /\ \E code \in Codes :
          /\ Response(m, code) \in net
          /\ net' = net \ {Response(m, code)}
    /\ UNCHANGED <<shape, pc, result, sent, received>>

Handler(m) ==
    \/ OpenIMCallback(m)
    \/ SyncPost(m)
    \/ ReceiveAnswer(m)
    \/ PostTimeout(m)

Next ==
    \/ \E m \in Msgs : Handler(m) \/ Serve(m) \/ DropLate(m)
    \/ Lose

(***************************************************************************)
(* The handler's goroutine runs on, and the HTTP client's timeout fires  *)
(* (config.RpcRedPacket.Timeout is set): weak fairness on each handler's *)
(* steps.  Nothing is assumed of the service or the network.            *)
(***************************************************************************)
Spec == Init /\ [][Next]_vars /\ \A m \in Msgs : WF_vars(Handler(m))

-----------------------------------------------------------------------------

(***************************************************************************)
(* A callback that called SyncPost (a send red packet with its data.data   *)
(* parameters, or a receive with a string redPacketId) tells the IM server *)
(* to send the message only when the service has recorded that packet or  *)
(* that receive: a lost request, a lost or late answer, a refusal or a    *)
(* reply that is not JSON never lets it through.  The red-packet messages *)
(* without parameters or without an id pass with no call to the service  *)
(* (callback.go:157-160, 210) and are outside this property.              *)
(***************************************************************************)
NoMessageWithoutRecord ==
    \A m \in Msgs :
        result[m] = "pass" =>
            /\ shape[m] = "send" => m \in sent
            /\ shape[m] = "receive" => m \in received

(***************************************************************************)
(* Every callback is answered, whatever the network loses: the HTTP      *)
(* timeout bounds the wait for the service.                              *)
(***************************************************************************)
EveryCallbackAnswered ==
    \A m \in Msgs : <>(result[m] # None)

=============================================================================
