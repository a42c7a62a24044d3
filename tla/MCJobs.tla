------------------------------ MODULE MCJobs ------------------------------
EXTENDS Jobs
=============================================================================
