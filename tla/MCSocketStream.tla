--------------------------- MODULE MCSocketStream ---------------------------
(* An instance of SocketStream for TLC.                                    *)
EXTENDS SocketStream, TLC

CONSTANTS r, w, x, A, B

Other == (A :> B @@ B :> A)

\* A reader of A that is killed and signalled, a thread that closes both ends
\* while the others are in their calls, and one that shuts down B and sends.
Program == (r :> {<<"read", A>>, <<"recvmsg", A>>, <<"setBlocking", A>>,
                  <<"end", A>>, <<"signal", A>>} @@
            w :> {<<"write", B>>, <<"close", A>>, <<"close", B>>} @@
            x :> {<<"shutdown", B>>, <<"writeNative", B>>, <<"sendmsg", B>>})
=============================================================================
