------------------------------- MODULE MCServe -------------------------------
(* The handlers of a request: chat and completions, and the event streams of  *)
(* /v1/messages.  The two models share no state, so a behaviour follows one   *)
(* of them, the one "focus" names, while the other stays as it began.         *)
EXTENDS ChatFlow, Messages

VARIABLE focus

ServeInit == ChatInit /\ MsgInit /\ focus \in {"chat", "messages"}
             /\ (focus # "messages" => path = "bridge")

ServeNext ==
  /\ UNCHANGED focus
  /\ \/ focus = "chat" /\ ChatNext /\ UNCHANGED msgVars
     \/ focus = "messages" /\ MsgNext /\ UNCHANGED chatVars

ServeSpec == ServeInit /\ [][ServeNext]_<<focus, chatVars, msgVars>> /\ ChatFairness
=============================================================================
