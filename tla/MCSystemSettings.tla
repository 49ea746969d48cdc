-------------------------- MODULE MCSystemSettings --------------------------
EXTENDS SystemSettings

MCInterfaces == <<"nic1", "nic2">>

\* A machine where an interface key and the TCP parameters are protected, and one
\* where the responsiveness value and the TOS key are.
MCLockedSets == {{"nic1", "tcpParams"}, {"responsiveness", "userTos"}}

\* The index is the value every tool of the kind knows.
MCContended == {"throttling"}
=============================================================================
