CONSTANTS
  None = None
  Tasks = {t1, t2, t3}
  Urls = {"a", "b", "bad"}
  HostOf <- MCHostOf
  Queues = {q1, q2, q3}
  Answers = {"ok", "404", "reset", "non_200"}
  MaxRetries = 1
SPECIFICATION Spec
 
PROPERTY TurnComes
