---------------------------- MODULE MCHelloHost -----------------------------
(* The object of main(): one class, one instance; and the values that opening *)
(* the libraries of sockets and bits leaves on the stack.                      *)
EXTENDS HelloHost, TLC

CONSTANTS Hello, wrappedHello

MCMethod == Hello :> HelloMethods
MCClassOf == wrappedHello :> Hello
MCOpened == <<<<"table", "socket.core">>, <<"table", "oil.bit">>>>

=============================================================================
