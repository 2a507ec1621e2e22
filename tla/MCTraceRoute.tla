---------------------------- MODULE MCTraceRoute ----------------------------
(* TraceRoute over a route of three routers, any of which may be silent.    *)
EXTENDS TraceRoute

CONSTANTS r1, r2, r3

MCRoute == <<r1, r2, r3>>

\* Echo and timestamp replies, host unreachable, a redirect.
MCForeign == { <<0, 0>>, <<14, 0>>, <<3, 1>>, <<5, 1>> }

\* A host that pings the device.
MCPing == { <<8, 0>> }
=============================================================================
