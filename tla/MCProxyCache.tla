---------------------------- MODULE MCProxyCache ----------------------------
(* The whole video and two windows of it, extracted three times. *)
EXTENDS ProxyCache
CONSTANTS f, w1, w2

\* One window again and again, two windows in either order, and the whole video
\* twice with a window.
MCRequests == {<<w1, w1, w1>>, <<w1, w2, w1>>, <<w1, w1, w2>>, <<f, f, w1>>}
=============================================================================
