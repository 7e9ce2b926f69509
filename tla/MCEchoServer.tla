---------------------------- MODULE MCEchoServer ----------------------------
EXTENDS EchoServer

CONSTANTS s1, s2, w1, w2

MCStream == <<s1, s2>>
MCWorker == {w1, w2}
=============================================================================
