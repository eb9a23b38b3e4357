------------------------------- MODULE MCPoll -------------------------------
(* Instances of Poll for TLC.                                              *)
EXTENDS Poll, TLC

CONSTANTS poller, writer, reader, ev, sem, sigfd

\* A semaphore, an eventfd with two descriptors, and a signalfd.
Opened == 0 :> sem @@ 1 :> ev @@ 2 :> sigfd @@ 3 :> ev

\* A poller that also reads the signalfd, is signalled and ended; a writer that
\* uses the eventfd's other descriptor and sends the signal; and a reader that
\* closes the descriptor that is polled, and duplicates the eventfd again.
Events == (poller :> {<<"poll", {<<0, "in">>, <<1, "in">>}, "forever">>,
                 <<"poll", {<<1, "out">>}, "finite">>, <<"sigread", 2>>, <<"end">>, <<"signal">>} @@
           writer :> {<<"write", 3>>, <<"read", 0>>, <<"kill">>} @@
           reader :> {<<"read", 1>>, <<"close", 1>>, <<"dup", 3>>})

\* A poller of the signalfd, and a sender.
Signals == (poller :> {<<"poll", {<<2, "in">>}, "forever">>} @@ writer :> {<<"kill">>})
=============================================================================
