------------------------------ MODULE MCPubSub ------------------------------
(***************************************************************************)
(* Instances of PubSub for TLC.                                            *)
(***************************************************************************)
EXTENDS PubSub, TLC

CONSTANTS c1, c2, x, y

Cmd(op, list) == [op |-> op, channels |-> list]

OneChannel == {<<>>, <<x>>}
TwoChannels == {<<>>, <<y, x>>}

NoBatches == {}
OtherBatch == {<<Cmd("other", <<>>)>>}
\* Publishing to oneself around a subscription change, and overflowing a queue.
MCBatches ==
    OtherBatch \union
        {<<Cmd("subscribe", <<x>>), Cmd("publish", <<x>>)>>,
         <<Cmd("publish", <<x>>), Cmd("other", <<>>), Cmd("unsubscribe", <<x>>), Cmd("publish", <<x>>)>>}

\* The histories `written` and `dropped` are read by no guard and by no liveness
\* property: states that differ only there have the same future, and are one.
WithoutTranscript ==
    <<secured, hub, lock, pc, queue, evicted, notify, client, output, log>>

=============================================================================
